---- MODULE Spec2Model ----
(***************************************************************************)
(* A model of the obsidian-schema command line tool (src/src/cli.mjs):     *)
(* the property-block parser and serializer, schema inheritance, schema    *)
(* matching, the autofix and validation rules, the per-document pass with  *)
(* relocation, and the bidirectional link pass.                            *)
(*                                                                         *)
(* JavaScript strings are sequences of one-character strings, so that      *)
(* trimming, quoting, lower-casing and pattern tests are computed and not  *)
(* assumed.  A JavaScript value is a record [k, s, a, o]:                  *)
(*   k = "str"  : the string s                                             *)
(*   k = "num"  : the number whose String() form is s                      *)
(*   k = "bool" : true / false, s is String() of it                        *)
(*   k = "null" : null, s is "null"                                        *)
(*   k = "arr"  : the array a                                              *)
(*   k = "obj"  : the plain object o (a function from keys to values)      *)
(* undefined is the absence of a key from a mapping.                       *)
(***************************************************************************)
EXTENDS Integers, Sequences, FiniteSets, TLC

VARIABLES yaml, inh, mt, af, run

vars == <<yaml, inh, mt, af, run>>

---------------------------------------------------------------------------
(* Idle values: what a variable holds in a specification that does not     *)
(* exercise its part of the program.                                       *)

Idle == [stage |-> "idle"]

---------------------------------------------------------------------------
(* Strings *)

IsWS(c) == c = " "

IsDigit(c) == c \in {"0", "1", "2", "3", "4", "5", "6", "7", "8", "9"}

RECURSIVE TrimLeft(_)
TrimLeft(s) ==
    IF s = <<>> THEN <<>>
    ELSE IF IsWS(Head(s)) THEN TrimLeft(Tail(s)) ELSE s

RECURSIVE TrimRight(_)
TrimRight(s) ==
    IF s = <<>> THEN <<>>
    ELSE IF IsWS(s[Len(s)]) THEN TrimRight(SubSeq(s, 1, Len(s) - 1)) ELSE s

Trim(s) == TrimRight(TrimLeft(s))

StartsWith(s, p) == Len(s) >= Len(p) /\ SubSeq(s, 1, Len(p)) = p

EndsWith(s, p) == Len(s) >= Len(p) /\ SubSeq(s, Len(s) - Len(p) + 1, Len(s)) = p

\* s.slice(from) with from counted from 0
DropFirst(s, n) == IF n >= Len(s) THEN <<>> ELSE SubSeq(s, n + 1, Len(s))

\* s.slice(0, -n)
DropLast(s, n) == IF n >= Len(s) THEN <<>> ELSE SubSeq(s, 1, Len(s) - n)

\* s.slice(1, -1)
Slice1(s) == IF Len(s) <= 2 THEN <<>> ELSE SubSeq(s, 2, Len(s) - 1)

Contains(s, c) == \E i \in 1..Len(s) : s[i] = c

\* 1-based position of the first c in s, 0 when there is none
IndexOf(s, c) ==
    IF Contains(s, c) THEN CHOOSE i \in 1..Len(s) : s[i] = c /\ \A j \in 1..(i - 1) : s[j] # c
    ELSE 0

RECURSIVE SplitOn(_, _)
SplitOn(s, c) ==
    LET i == IndexOf(s, c)
    IN IF i = 0 THEN <<s>>
       ELSE <<SubSeq(s, 1, i - 1)>> \o SplitOn(DropFirst(s, i), c)

RECURSIVE JoinWith(_, _)
JoinWith(parts, sep) ==
    IF parts = <<>> THEN <<>>
    ELSE IF Len(parts) = 1 THEN parts[1]
    ELSE parts[1] \o sep \o JoinWith(Tail(parts), sep)

UpperChars == <<"A", "B", "C", "D", "E", "F", "G", "H", "I", "J", "K", "L", "M",
                "N", "O", "P", "Q", "R", "S", "T", "U", "V", "W", "X", "Y", "Z">>

LowerChars == <<"a", "b", "c", "d", "e", "f", "g", "h", "i", "j", "k", "l", "m",
                "n", "o", "p", "q", "r", "s", "t", "u", "v", "w", "x", "y", "z">>

ToLowerChar(c) ==
    IF \E i \in 1..Len(UpperChars) : UpperChars[i] = c
    THEN LowerChars[CHOOSE i \in 1..Len(UpperChars) : UpperChars[i] = c]
    ELSE c

ToLower(s) == [i \in 1..Len(s) |-> ToLowerChar(s[i])]

AllDigits(s) == \A i \in 1..Len(s) : IsDigit(s[i])

\* /^\d+$/
IsDigitString(s) == s # <<>> /\ AllDigits(s)

\* /^-?\d+(\.\d+)?$/
IsNumberText(s) ==
    LET body == IF s # <<>> /\ s[1] = "-" THEN Tail(s) ELSE s
        dot  == IndexOf(body, ".")
    IN IF dot = 0 THEN IsDigitString(body)
       ELSE /\ IsDigitString(SubSeq(body, 1, dot - 1))
            /\ IsDigitString(DropFirst(body, dot))

RECURSIVE StripLeadingZeros(_)
StripLeadingZeros(s) ==
    IF Len(s) > 1 /\ s[1] = "0" THEN StripLeadingZeros(Tail(s)) ELSE s

RECURSIVE StripTrailingZeros(_)
StripTrailingZeros(s) ==
    IF s # <<>> /\ s[Len(s)] = "0" THEN StripTrailingZeros(DropLast(s, 1)) ELSE s

\* String(Number(s)) for a text s that satisfies IsNumberText and is short
\* enough to need neither rounding nor exponent notation
NumberText(s) ==
    LET neg   == s[1] = "-"
        body  == IF neg THEN Tail(s) ELSE s
        dot   == IndexOf(body, ".")
        ip    == StripLeadingZeros(IF dot = 0 THEN body ELSE SubSeq(body, 1, dot - 1))
        fp    == IF dot = 0 THEN <<>> ELSE StripTrailingZeros(DropFirst(body, dot))
        zero  == ip = <<"0">> /\ fp = <<>>
    IN (IF neg /\ ~zero THEN <<"-">> ELSE <<>>)
       \o ip
       \o (IF fp = <<>> THEN <<>> ELSE <<".">> \o fp)

---------------------------------------------------------------------------
(* Values *)

NoMap == [x \in {} |-> x]

Str(s) == [k |-> "str", s |-> s, a |-> <<>>, o |-> NoMap]

Num(s) == [k |-> "num", s |-> s, a |-> <<>>, o |-> NoMap]

JsTrue == [k |-> "bool", s |-> <<"t", "r", "u", "e">>, a |-> <<>>, o |-> NoMap]

JsFalse == [k |-> "bool", s |-> <<"f", "a", "l", "s", "e">>, a |-> <<>>, o |-> NoMap]

JsNull == [k |-> "null", s |-> <<"n", "u", "l", "l">>, a |-> <<>>, o |-> NoMap]

JsUndef == [k |-> "undef", s |-> <<"u", "n", "d", "e", "f", "i", "n", "e", "d">>, a |-> <<>>, o |-> NoMap]

Arr(items) == [k |-> "arr", s |-> <<>>, a |-> items, o |-> NoMap]

Obj(m) == [k |-> "obj", s |-> <<>>, a |-> <<>>, o |-> m]

IsStr(v) == v.k = "str"

IsArr(v) == v.k = "arr"

IsNull(v) == v.k = "null"

IsNullish(v) == v.k \in {"null", "undef"}

\* Boolean(value)
Truthy(v) ==
    CASE v.k = "str"  -> v.s # <<>>
      [] v.k = "num"  -> v.s # <<"0">>
      [] v.k = "bool" -> v.s = <<"t", "r", "u", "e">>
      [] v.k \in {"null", "undef"} -> FALSE
      [] OTHER -> TRUE

\* JSON.parse(JSON.stringify(v)): a copy that shares nothing with v.  The model's
\* values are immutable and all of them are JSON values, so the copy equals v.
cloneValue(v) == v

\* String(value)
RECURSIVE JsString(_)
JsString(v) ==
    IF v.k = "arr"
    THEN JoinWith([i \in 1..Len(v.a) |->
                      IF v.a[i].k = "null" THEN <<>> ELSE JsString(v.a[i])], <<",">>)
    ELSE IF v.k = "obj"
    THEN <<"[", "o", "b", "j", "e", "c", "t", " ", "O", "b", "j", "e", "c", "t", "]">>
    ELSE v.s

\* mapping helpers: a mapping is a function from keys to values
Has(m, key) == key \in DOMAIN m

Put(m, key, val) == [x \in (DOMAIN m) \cup {key} |-> IF x = key THEN val ELSE m[x]]

Del(m, key) == [x \in (DOMAIN m) \ {key} |-> m[x]]

---------------------------------------------------------------------------
(* Property-block scalars *)

\* /^\[\[[^\]]+\]\]$/
WikiLinkShaped(v) ==
    /\ Len(v) >= 5
    /\ StartsWith(v, <<"[", "[">>)
    /\ EndsWith(v, <<"]", "]">>)
    /\ ~Contains(SubSeq(v, 3, Len(v) - 2), "]")

Unquote(v) ==
    IF \/ (StartsWith(v, <<"\"">>) /\ EndsWith(v, <<"\"">>))
       \/ (StartsWith(v, <<"'">>) /\ EndsWith(v, <<"'">>))
    THEN Slice1(v)
    ELSE v

RECURSIVE parseScalar(_)
parseScalar(value) ==
    LET v        == Trim(value)
        unquoted == Unquote(v)
    IN IF v = <<>> THEN Str(<<>>)
       ELSE IF WikiLinkShaped(v) THEN Str(v)
       ELSE IF WikiLinkShaped(unquoted) THEN Str(unquoted)
       ELSE IF unquoted = <<"t", "r", "u", "e">> THEN JsTrue
       ELSE IF unquoted = <<"f", "a", "l", "s", "e">> THEN JsFalse
       ELSE IF unquoted = <<"n", "u", "l", "l">> \/ unquoted = <<"~">> THEN JsNull
       ELSE IF IsNumberText(unquoted) THEN Num(NumberText(unquoted))
       ELSE IF StartsWith(unquoted, <<"[">>) /\ EndsWith(unquoted, <<"]">>)
       THEN LET inner == Trim(Slice1(unquoted))
                parts == SplitOn(inner, ",")
            IN IF inner = <<>> THEN Arr(<<>>)
               ELSE Arr([i \in 1..Len(parts) |-> parseScalar(Trim(parts[i]))])
       ELSE Str(unquoted)

needsQuote(value) ==
    \/ IsDigitString(value)
    \/ ToLower(value) \in {<<"t", "r", "u", "e">>, <<"f", "a", "l", "s", "e">>,
                           <<"n", "u", "l", "l">>, <<"~">>}
    \/ \E i \in 1..Len(value) : value[i] \in {"[", "]", "{", "}", ":", ",", "#"}
    \/ (value # <<>> /\ (IsWS(value[1]) \/ IsWS(value[Len(value)])))
    \/ Contains(value, "\"")

\* v.replace(/"/g, '\\"')
RECURSIVE EscapeQuotes(_)
EscapeQuotes(s) ==
    IF s = <<>> THEN <<>>
    ELSE (IF Head(s) = "\"" THEN <<"\\", "\"">> ELSE <<Head(s)>>) \o EscapeQuotes(Tail(s))

serializeScalar(value) ==
    IF value.k \in {"bool", "num"} THEN JsString(value)
    ELSE LET v == JsString(value)
         IN IF v = <<>> THEN <<"\"", "\"">>
            ELSE IF needsQuote(v) THEN <<"\"">> \o EscapeQuotes(v) \o <<"\"">>
            ELSE v

---------------------------------------------------------------------------
(* Property-block lines.  A text is the sequence of its lines (the result  *)
(* of split('\n')), so the empty text is the one empty line.               *)

Dash3 == <<"-", "-", "-">>

kList == <<"_", "_", "l", "i", "s", "t">>

IndentOf(line) == Len(line) - Len(TrimLeft(line))

Meaningful(line) == Trim(line) # <<>> /\ ~StartsWith(Trim(line), <<"#">>)

\* index of the next line that is neither blank nor a comment, 0 if none
nextMeaningfulLine(lines, startIndex) ==
    IF \E i \in startIndex..Len(lines) : Meaningful(lines[i])
    THEN CHOOSE i \in startIndex..Len(lines) :
            Meaningful(lines[i]) /\ \A j \in startIndex..(i - 1) : ~Meaningful(lines[j])
    ELSE 0

RECURSIVE GetAt(_, _)
GetAt(v, path) == IF path = <<>> THEN v ELSE GetAt(v.o[Head(path)], Tail(path))

RECURSIVE UpdAt(_, _, _)
UpdAt(v, path, nv) ==
    IF path = <<>> THEN nv
    ELSE Obj(Put(v.o, Head(path), UpdAt(v.o[Head(path)], Tail(path), nv)))

RECURSIVE PopStack(_, _)
PopStack(stack, indent) ==
    IF Len(stack) > 1 /\ indent <= stack[Len(stack)].indent
    THEN PopStack(DropLast(stack, 1), indent)
    ELSE stack

\* parent[key] = val, where parent is the container on top of the stack.  A
\* named property set on an array is invisible to everything that follows
\* (JSON.stringify, structuredClone, the array methods), and so is anything
\* reached only through it: such a container is not live.
YamlAssign(root, top, key, val) ==
    IF top.live /\ GetAt(root, top.path).k = "obj"
    THEN UpdAt(root, top.path, Obj(Put(GetAt(root, top.path).o, key, val)))
    ELSE root

YamlPush(root, top, item) ==
    IF ~top.live THEN root
    ELSE LET parent == GetAt(root, top.path)
         IN IF parent.k = "arr"
            THEN UpdAt(root, top.path, Arr(Append(parent.a, item)))
            ELSE LET old == IF Has(parent.o, kList) /\ IsArr(parent.o[kList])
                            THEN parent.o[kList].a ELSE <<>>
                 IN UpdAt(root, top.path, Obj(Put(parent.o, kList, Arr(Append(old, item)))))

YamlLine(lines, i, st) ==
    LET raw    == lines[i]
        line   == Trim(raw)
        indent == IndentOf(raw)
        stack  == PopStack(st.stack, indent)
        top    == stack[Len(stack)]
        idx    == IndexOf(line, ":")
        key    == Trim(SubSeq(line, 1, idx - 1))
        rest   == Trim(DropFirst(line, idx))
        nxt    == nextMeaningfulLine(lines, i + 1)
    IN IF ~Meaningful(raw) THEN st
       ELSE IF StartsWith(line, <<"-", " ">>)
       THEN [root  |-> YamlPush(st.root, top, parseScalar(Trim(DropFirst(line, 2)))),
             stack |-> stack]
       ELSE IF idx = 0 THEN [root |-> st.root, stack |-> stack]
       ELSE IF rest = <<>>
       THEN IF nxt = 0 \/ IndentOf(lines[nxt]) <= indent
            THEN [root |-> YamlAssign(st.root, top, key, JsNull), stack |-> stack]
            ELSE LET child == IF StartsWith(Trim(lines[nxt]), <<"-", " ">>)
                              THEN Arr(<<>>) ELSE Obj(NoMap)
                 IN [root  |-> YamlAssign(st.root, top, key, child),
                     stack |-> Append(stack,
                                 [indent |-> indent,
                                  path   |-> top.path \o <<key>>,
                                  live   |-> top.live /\ GetAt(st.root, top.path).k = "obj"])]
       ELSE [root |-> YamlAssign(st.root, top, key, parseScalar(rest)), stack |-> stack]

RECURSIVE YamlLines(_, _, _)
YamlLines(lines, i, st) ==
    IF i > Len(lines) THEN st ELSE YamlLines(lines, i + 1, YamlLine(lines, i, st))

RECURSIVE sanitizeYamlLists(_)
sanitizeYamlLists(obj) ==
    [key \in DOMAIN obj |->
        LET value == obj[key]
        IN IF value.k = "obj" /\ Has(value.o, kList) /\ IsArr(value.o[kList])
           THEN value.o[kList]
           ELSE IF value.k = "obj" THEN Obj(sanitizeYamlLists(value.o))
           ELSE value]

\* the mapping parsed from the lines of a property block
parseSimpleYaml(lines) ==
    sanitizeYamlLists(
        YamlLines(lines, 1,
                  [root  |-> Obj(NoMap),
                   stack |-> <<[indent |-> -1, path |-> <<>>, live |-> TRUE]>>]).root.o)

\* the line that closes the property block, 0 if there is none
FrontmatterEnd(lines) ==
    IF \E i \in 2..Len(lines) : lines[i] = Dash3
    THEN CHOOSE i \in 2..Len(lines) : lines[i] = Dash3 /\ \A j \in 2..(i - 1) : lines[j] # Dash3
    ELSE 0

parseMarkdownWithFrontmatter(text) ==
    LET end == FrontmatterEnd(text)
    IN IF ~(Len(text) >= 2 /\ text[1] = Dash3) \/ end = 0
       THEN [hasFrontmatter |-> FALSE, frontmatter |-> NoMap, body |-> text]
       ELSE [hasFrontmatter |-> TRUE,
             frontmatter    |-> parseSimpleYaml(SubSeq(text, 2, end - 1)),
             body           |-> IF end = Len(text) THEN << <<>> >>
                                ELSE SubSeq(text, end + 1, Len(text))]

---------------------------------------------------------------------------
(* Serializer *)

\* the printable ASCII characters in code order (the grave accent, which no
\* text of the model contains, is left out)
AsciiChars ==
    <<" ", "!", "\"", "#", "$", "%", "&", "'", "(", ")", "*", "+", ",", "-", ".", "/",
      "0", "1", "2", "3", "4", "5", "6", "7", "8", "9", ":", ";", "<", "=", ">", "?",
      "@", "A", "B", "C", "D", "E", "F", "G", "H", "I", "J", "K", "L", "M", "N", "O",
      "P", "Q", "R", "S", "T", "U", "V", "W", "X", "Y", "Z", "[", "\\", "]", "^", "_",
      "a", "b", "c", "d", "e", "f", "g", "h", "i", "j", "k", "l", "m", "n", "o",
      "p", "q", "r", "s", "t", "u", "v", "w", "x", "y", "z", "{", "|", "}", "~">>

CharCode(c) == CHOOSE i \in 1..Len(AsciiChars) : AsciiChars[i] = c

\* a < b as Array.prototype.sort() orders strings
RECURSIVE StringLess(_, _)
StringLess(a, b) ==
    IF a = <<>> THEN b # <<>>
    ELSE IF b = <<>> THEN FALSE
    ELSE IF Head(a) = Head(b) THEN StringLess(Tail(a), Tail(b))
    ELSE CharCode(Head(a)) < CharCode(Head(b))

RECURSIVE SortStrings(_)
SortStrings(S) ==
    IF S = {} THEN <<>>
    ELSE LET m == CHOOSE x \in S : \A y \in S \ {x} : StringLess(x, y)
         IN <<m>> \o SortStrings(S \ {m})

kType == <<"t", "y", "p", "e">>
kSchemaNotes == <<"s", "c", "h", "e", "m", "a", "_", "n", "o", "t", "e", "s">>
kTags == <<"t", "a", "g", "s">>
kStatus == <<"s", "t", "a", "t", "u", "s">>
kDate == <<"d", "a", "t", "e">>
kCreated == <<"c", "r", "e", "a", "t", "e", "d">>
kModified == <<"m", "o", "d", "i", "f", "i", "e", "d">>
kAliases == <<"a", "l", "i", "a", "s", "e", "s">>
kTitle == <<"t", "i", "t", "l", "e">>
kParent == <<"p", "a", "r", "e", "n", "t">>
kChildren == <<"c", "h", "i", "l", "d", "r", "e", "n">>

PREFERRED_KEY_ORDER ==
    <<kType, kSchemaNotes, kTags, kStatus, kDate, kCreated, kModified, kAliases,
      kTitle, kParent, kChildren>>

\* the keys of obj in the order orderKeys gives them
orderKeys(obj) ==
    LET pref == SelectSeq(PREFERRED_KEY_ORDER, LAMBDA key : Has(obj, key))
    IN pref \o SortStrings(DOMAIN obj \ {pref[i] : i \in 1..Len(pref)})

SerializeEntry(key, value) ==
    IF IsArr(value)
    THEN IF value.a = <<>>
         THEN <<key \o <<":", " ", "[", "]">>>>
         ELSE <<key \o <<":">>>> \o
              [i \in 1..Len(value.a) |-> <<" ", " ", "-", " ">> \o serializeScalar(value.a[i])]
    ELSE IF IsNull(value)
    THEN <<key \o <<":", " ", "n", "u", "l", "l">>>>
    ELSE <<key \o <<":", " ">> \o serializeScalar(value)>>

RECURSIVE SerializeEntries(_, _)
SerializeEntries(keys, obj) ==
    IF keys = <<>> THEN <<>>
    ELSE SerializeEntry(Head(keys), obj[Head(keys)]) \o SerializeEntries(Tail(keys), obj)

\* the lines of the property block of obj, its keys taken in the order `keys`;
\* a block without keys is the empty text, which is one empty line
serializeFrontmatter(keys, obj) ==
    IF keys = <<>> THEN << <<>> >> ELSE SerializeEntries(keys, obj)

serializeMarkdown(body, frontmatter) ==
    <<Dash3>> \o serializeFrontmatter(orderKeys(frontmatter), frontmatter) \o <<Dash3>>
    \o (IF Len(body) >= 2 /\ body[1] = <<>> THEN Tail(body) ELSE body)

---------------------------------------------------------------------------
(* Schema records and inheritance *)

sType == <<"t", "y", "p", "e">>

\* a PropertyDef; type "" is a definition without a type
PropDef(type, hasEnum, enum, hasDefault, default, format) ==
    [type |-> type, hasEnum |-> hasEnum, enum |-> enum,
     hasDefault |-> hasDefault, default |-> default, format |-> format]

PlainProp(type) == PropDef(type, FALSE, <<>>, FALSE, JsNull, "")

PairRule(sourceField, targetType, targetField) ==
    [sourceField |-> sourceField, targetType |-> targetType, targetField |-> targetField]

\* `${schema.discriminator}:${schema.id}`
SchemaKey(discriminator, id) == discriminator \o <<":">> \o id

\* the keys of a and then the keys of b that a lacks, as { ...a, ...b } holds them
Spread(a, b) == [x \in (DOMAIN a) \cup (DOMAIN b) |-> IF x \in DOMAIN b THEN b[x] ELSE a[x]]

\* [...new Set(seq)]
RECURSIVE Dedup(_)
Dedup(seq) ==
    IF seq = <<>> THEN <<>>
    ELSE LET front == Dedup(DropLast(seq, 1))
             last  == seq[Len(seq)]
         IN IF \E i \in 1..Len(front) : front[i] = last THEN front ELSE Append(front, last)

\* mergeSchema with the parent's property definitions taking precedence
mergeSchemaBaseWins(base, child) ==
    [child EXCEPT
        !.properties = Spread(child.properties, base.properties),
        !.required = Dedup(base.required \o child.required),
        !.pairRulesByField = Spread(base.pairRulesByField, child.pairRulesByField),
        !.folder = IF IsNullish(child.folder)
                   THEN (IF IsNullish(base.folder) THEN JsNull ELSE base.folder)
                   ELSE child.folder,
        !.prependDateToTitle = IF child.prependDateToTitle.k = "undef"
                               THEN (IF Truthy(base.prependDateToTitle) THEN JsTrue ELSE JsFalse)
                               ELSE child.prependDateToTitle,
        !.purpose = IF ~Truthy(child.purpose) /\ Truthy(base.purpose)
                    THEN base.purpose ELSE child.purpose]

mergeSchema(base, child) ==
    [child EXCEPT
        !.properties = Spread(base.properties, child.properties),
        !.required = Dedup(base.required \o child.required),
        !.pairRulesByField = Spread(base.pairRulesByField, child.pairRulesByField),
        !.folder = IF IsNullish(child.folder)
                   THEN (IF IsNullish(base.folder) THEN JsNull ELSE base.folder)
                   ELSE child.folder,
        !.prependDateToTitle = IF child.prependDateToTitle.k = "undef"
                               THEN (IF Truthy(base.prependDateToTitle) THEN JsTrue ELSE JsFalse)
                               ELSE child.prependDateToTitle,
        !.purpose = IF ~Truthy(child.purpose) /\ Truthy(base.purpose)
                    THEN base.purpose ELSE child.purpose]

KeyOf(schema) == SchemaKey(schema.discriminator, schema.id)

\* schema.extends names a parent: the value is a non-empty string
HasExtends(schema) == Truthy(schema.extends)

ParentKey(schema) == SchemaKey(schema.discriminator, schema.extends.s)

\* the tail of schemas.map in resolveSchemaInheritance: a type schema without
\* folder gets the vault root
NormalizeResolved(out) ==
    IF out.discriminator = sType /\ IsNullish(out.folder)
    THEN [out EXCEPT !.folder = Str(<<>>)]
    ELSE out

\* Object.values(schema.pairRulesByField), in the order of the source fields
pairRules(schema) ==
    LET fields == SortStrings(DOMAIN schema.pairRulesByField)
    IN [i \in 1..Len(fields) |-> schema.pairRulesByField[fields[i]]]

(* resolveSchemaInheritance as a machine.  inh.byKey holds the loaded        *)
(* schemas by key, inh.pending the keys schemas.map has not reached yet (the *)
(* directory order is arbitrary, so map may reach them in any order),        *)
(* inh.stack the calls of visit in progress, inh.ret the value the last      *)
(* call of visit returned, inh.visits the number of calls of visit so far.   *)

InhTop == inh.stack[Len(inh.stack)]

InhPop == DropLast(inh.stack, 1)

\* schemas.map calls visit(s) for the next schema
InhCall ==
    /\ inh.stage = "resolve" /\ inh.stack = <<>> /\ inh.ret = <<>>
    /\ \E key \in inh.pending :
          inh' = [inh EXCEPT !.stack = <<[key |-> key, phase |-> "enter"]>>,
                             !.current = key,
                             !.visits = @ + 1]
    /\ UNCHANGED <<yaml, mt, af, run>>

\* if (resolved.has(key)) return resolved.get(key)
InhVisitResolved ==
    /\ inh.stage = "resolve" /\ inh.stack # <<>> /\ InhTop.phase = "enter"
    /\ InhTop.key \in DOMAIN inh.resolved
    /\ inh' = [inh EXCEPT !.stack = InhPop, !.ret = <<inh.resolved[InhTop.key]>>]
    /\ UNCHANGED <<yaml, mt, af, run>>

\* InhVisitCycle without the warning
InhVisitCycleSilent ==
    /\ inh.stage = "resolve" /\ inh.stack # <<>> /\ InhTop.phase = "enter"
    /\ InhTop.key \notin DOMAIN inh.resolved
    /\ InhTop.key \in inh.resolving
    /\ inh' = [inh EXCEPT !.stack = InhPop, !.ret = <<inh.byKey[InhTop.key]>>]
    /\ UNCHANGED <<yaml, mt, af, run>>

\* if (resolving.has(key)) { warn; return schema }
InhVisitCycle ==
    /\ inh.stage = "resolve" /\ inh.stack # <<>> /\ InhTop.phase = "enter"
    /\ InhTop.key \notin DOMAIN inh.resolved
    /\ InhTop.key \in inh.resolving
    /\ inh' = [inh EXCEPT !.stack = InhPop,
                          !.ret = <<inh.byKey[InhTop.key]>>,
                          !.warnings = Append(@, [kind |-> "cycle", key |-> InhTop.key])]
    /\ UNCHANGED <<yaml, mt, af, run>>

\* the schema extends a loaded parent: visit(parent)
InhVisitParent ==
    /\ inh.stage = "resolve" /\ inh.stack # <<>> /\ InhTop.phase = "enter"
    /\ InhTop.key \notin DOMAIN inh.resolved
    /\ InhTop.key \notin inh.resolving
    /\ LET schema == inh.byKey[InhTop.key]
       IN /\ HasExtends(schema)
          /\ ParentKey(schema) \in DOMAIN inh.byKey
          /\ inh' = [inh EXCEPT !.resolving = @ \cup {InhTop.key},
                                !.visits = @ + 1,
                                !.stack = Append(InhPop, [key |-> InhTop.key, phase |-> "merge"])
                                          \o <<[key |-> ParentKey(schema), phase |-> "enter"]>>]
    /\ UNCHANGED <<yaml, mt, af, run>>

\* no extends, or a parent that is not loaded: the clone is the result
InhVisitNoParent ==
    /\ inh.stage = "resolve" /\ inh.stack # <<>> /\ InhTop.phase = "enter"
    /\ InhTop.key \notin DOMAIN inh.resolved
    /\ InhTop.key \notin inh.resolving
    /\ LET schema == inh.byKey[InhTop.key]
           out    == cloneValue(schema)
       IN /\ ~(HasExtends(schema) /\ ParentKey(schema) \in DOMAIN inh.byKey)
          /\ inh' = [inh EXCEPT
                        !.stack = InhPop,
                        !.ret = <<out>>,
                        !.resolved = Put(@, InhTop.key, out),
                        !.warnings = IF HasExtends(schema)
                                     THEN Append(@, [kind |-> "missing", key |-> InhTop.key])
                                     ELSE @]
    /\ UNCHANGED <<yaml, mt, af, run>>

\* visit(parent) has returned: out = mergeSchema(parentResolved, out)
InhVisitMerge ==
    /\ inh.stage = "resolve" /\ inh.stack # <<>> /\ InhTop.phase = "merge"
    /\ inh.ret # <<>>
    /\ LET out == mergeSchema(inh.ret[1], cloneValue(inh.byKey[InhTop.key]))
       IN inh' = [inh EXCEPT !.stack = InhPop,
                             !.ret = <<out>>,
                             !.resolving = @ \ {InhTop.key},
                             !.resolved = Put(@, InhTop.key, out)]
    /\ UNCHANGED <<yaml, mt, af, run>>

\* the callback of schemas.map finishes one schema; out is the object that
\* resolved holds, so the folder it sets is seen by later visits
InhMap ==
    /\ inh.stage = "resolve" /\ inh.stack = <<>> /\ inh.ret # <<>>
    /\ LET out == NormalizeResolved(inh.ret[1])
       IN inh' = [inh EXCEPT !.ret = <<>>,
                             !.resolved = Put(@, inh.current, out),
                             !.out = Append(@, out),
                             !.pending = @ \ {inh.current},
                             !.stage = IF inh.pending = {inh.current} THEN "done" ELSE "resolve"]
    /\ UNCHANGED <<yaml, mt, af, run>>

InhNext ==
    \/ InhCall
    \/ InhVisitResolved
    \/ InhVisitCycle
    \/ InhVisitParent
    \/ InhVisitNoParent
    \/ InhVisitMerge
    \/ InhMap

(* Inputs of the inheritance machine: the schemas named by the first       *)
(* MaxSchemas identifiers of IdPool, any non-empty subset of them loaded,    *)
(* each extending nothing, itself, or any of the identifiers (a parent that  *)
(* is not loaded is a missing parent).                                       *)

MaxSchemas == 3

IdPool == << <<"a">>, <<"b">>, <<"c">>, <<"d">>, <<"e">> >>

SchemaIds == {IdPool[i] : i \in 1..MaxSchemas}

kShared == <<"s", "h", "a", "r", "e", "d">>

fFolderOf(id) == <<"F">> \o id

\* a schema as loadSchemas hands it to resolveSchemaInheritance: every schema
\* declares the field `shared` in its own way and one field of its own
RawSchema(id, ext, folder) ==
    [id |-> id,
     discriminator |-> sType,
     extends |-> ext,
     purpose |-> IF id = <<"a">> THEN Str(<<"p">>) ELSE JsNull,
     prependDateToTitle |-> IF id = <<"a">> THEN JsTrue ELSE JsUndef,
     folder |-> folder,
     required |-> IF id = <<"b">> THEN <<id>> ELSE <<kShared, id>>,
     properties |-> Put(Put(NoMap, kShared, PropDef("string", FALSE, <<>>, TRUE, Str(id), "")),
                        id, PlainProp("array")),
     pairRulesByField |-> Put(Put(NoMap, kShared, PairRule(kShared, Str(id), id)),
                              id, PairRule(id, JsNull, kShared)),
     match |-> NoMap]

ExtendsChoices == {JsNull} \cup {Str(id) : id \in SchemaIds}

\* b may or may not declare a folder, c declares one, the others declare none
FolderChoices(id) ==
    IF id = <<"b">> THEN {JsNull, Str(fFolderOf(id))}
    ELSE IF id = <<"c">> THEN {Str(fFolderOf(id))}
    ELSE {JsNull}

InhInputs ==
    {s \in UNION {[ {SchemaKey(sType, id) : id \in ids} -> 
                       UNION {{RawSchema(id, e, f) : e \in ExtendsChoices, f \in FolderChoices(id)} :
                                  id \in ids} ] :
                     ids \in SUBSET SchemaIds \ {{}}} :
        \A key \in DOMAIN s : KeyOf(s[key]) = key}

InhStart(byKey) ==
    [stage |-> "resolve", byKey |-> byKey, pending |-> DOMAIN byKey, current |-> <<>>,
     visits |-> 0, stack |-> <<>>, resolving |-> {}, resolved |-> NoMap, warnings |-> <<>>,
     ret |-> <<>>, out |-> <<>>]

InhInit ==
    /\ inh \in {InhStart(byKey) : byKey \in InhInputs}
    /\ yaml = Idle /\ mt = Idle /\ af = Idle /\ run = Idle

SpecInherit == InhInit /\ [][InhNext]_vars

SeqSet(seq) == {seq[i] : i \in 1..Len(seq)}

\* the resolved record that schemas.map returned for `key`
OutOf(key) == inh.out[CHOOSE i \in 1..Len(inh.out) : KeyOf(inh.out[i]) = key]

ParentLoaded(byKey, key) ==
    HasExtends(byKey[key]) /\ ParentKey(byKey[key]) \in DOMAIN byKey

\* B extends A, A is loaded and extends nothing
ExtendsRoot(byKey, b, a) ==
    /\ ParentLoaded(byKey, b) /\ ParentKey(byKey[b]) = a
    /\ ~HasExtends(byKey[a])

\* C8: when B extends A and A extends nothing, the resolved B has the union of
\* the required fields, A's properties overridden key by key by B's, the pair
\* rules merged the same way, and B's folder if it declares one, else A's, in
\* whatever order the schemas were loaded.
InheritanceMerge ==
    inh.stage = "done" =>
        \A b \in DOMAIN inh.byKey, a \in DOMAIN inh.byKey :
            ExtendsRoot(inh.byKey, b, a) =>
                LET A  == inh.byKey[a]
                    B  == inh.byKey[b]
                    rb == OutOf(b)
                IN /\ SeqSet(rb.required) = SeqSet(A.required) \cup SeqSet(B.required)
                   /\ DOMAIN rb.properties = (DOMAIN A.properties) \cup (DOMAIN B.properties)
                   /\ \A key \in DOMAIN rb.properties :
                         rb.properties[key] = IF key \in DOMAIN B.properties
                                              THEN B.properties[key] ELSE A.properties[key]
                   /\ DOMAIN rb.pairRulesByField
                         = (DOMAIN A.pairRulesByField) \cup (DOMAIN B.pairRulesByField)
                   /\ \A key \in DOMAIN rb.pairRulesByField :
                         rb.pairRulesByField[key]
                            = IF key \in DOMAIN B.pairRulesByField
                              THEN B.pairRulesByField[key] ELSE A.pairRulesByField[key]
                   /\ rb.folder = IF IsNullish(B.folder) THEN OutOf(a).folder ELSE B.folder

\* a child without folder has taken its parent's declared folder and all of
\* the parent's required fields, and keeps its own definition of `shared`
InheritanceMergeWitness ==
    /\ inh.stage = "done"
    /\ \E b \in DOMAIN inh.byKey, a \in DOMAIN inh.byKey :
          /\ ExtendsRoot(inh.byKey, b, a)
          /\ IsNullish(inh.byKey[b].folder) /\ ~IsNullish(inh.byKey[a].folder)
          /\ OutOf(b).folder = inh.byKey[a].folder
          /\ Len(OutOf(b).required) > Len(inh.byKey[b].required)
          /\ OutOf(b).properties[kShared] = inh.byKey[b].properties[kShared]
          /\ OutOf(b).properties[kShared] # inh.byKey[a].properties[kShared]

\* the keys reached from `key` by following extends links to loaded schemas,
\* in 1 to n steps
RECURSIVE AncestorKeys(_, _, _)
AncestorKeys(byKey, key, n) ==
    IF n = 0 \/ ~ParentLoaded(byKey, key) THEN {}
    ELSE {ParentKey(byKey[key])} \cup AncestorKeys(byKey, ParentKey(byKey[key]), n - 1)

HasCycle(byKey) ==
    \E key \in DOMAIN byKey : key \in AncestorKeys(byKey, key, Cardinality(DOMAIN byKey))

CycleWarned == \E i \in 1..Len(inh.warnings) : inh.warnings[i].kind = "cycle"

\* some step of resolveSchemaInheritance can be taken: the guards of the
\* actions of InhNext
InhCanStep ==
    \/ inh.stack = <<>> /\ inh.ret = <<>> /\ inh.pending # {}
    \/ inh.stack = <<>> /\ inh.ret # <<>>
    \/ /\ inh.stack # <<>> /\ InhTop.phase = "enter"
       /\ \/ InhTop.key \in DOMAIN inh.resolved
          \/ InhTop.key \in inh.resolving
          \/ ParentLoaded(inh.byKey, InhTop.key)
          \/ ~ParentLoaded(inh.byKey, InhTop.key)
    \/ inh.stack # <<>> /\ InhTop.phase = "merge" /\ inh.ret # <<>>

\* C9: for every set of schemas, cyclic ones included, resolveSchemaInheritance
\* returns (until it has, a step is always possible, visit is called at most
\* twice per schema and never nests deeper than there are schemas, plus one),
\* with one resolved record for each schema, and with a cycle warning whenever
\* the extends links hold a cycle.
CycleSafety ==
    /\ inh.stage = "resolve" => InhCanStep
    /\ inh.visits <= 2 * Cardinality(DOMAIN inh.byKey)
    /\ Len(inh.stack) <= Cardinality(DOMAIN inh.byKey) + 1
    /\ inh.stage = "done" =>
            /\ Len(inh.out) = Cardinality(DOMAIN inh.byKey)
            /\ {KeyOf(inh.out[i]) : i \in 1..Len(inh.out)} = DOMAIN inh.byKey
            /\ (HasCycle(inh.byKey) => CycleWarned)

\* three schemas on one cycle have been resolved, with a warning
CycleSafetyWitness ==
    /\ inh.stage = "done"
    /\ Len(inh.out) = 3
    /\ \A key \in DOMAIN inh.byKey :
          /\ ParentLoaded(inh.byKey, key)
          /\ Cardinality(AncestorKeys(inh.byKey, key, 3)) = 3
    /\ CycleWarned

---------------------------------------------------------------------------
(* Round trip of a property block: serializeMarkdown, then                 *)
(* parseMarkdownWithFrontmatter, on mappings drawn from the scalar grammar *)

MaxStrLen == 2
MaxArrLen == 2

RtChars == {"a", "T", " ", "1", "\"", ":", "[", "#", ","}

RECURSIVE StringsUpTo(_, _)
StringsUpTo(chars, n) ==
    IF n = 0 THEN {<<>>}
    ELSE LET shorter == StringsUpTo(chars, n - 1)
         IN shorter \cup {Append(s, c) : s \in {x \in shorter : Len(x) = n - 1}, c \in chars}

RtWords ==
    {<<"t", "r", "u", "e">>, <<"f", "a", "l", "s", "e">>, <<"n", "u", "l", "l">>, <<"~">>,
     <<"[", "[", "A", "]", "]">>, <<"[", "[", "A", "|", "b", "]", "]">>,
     <<"{", "a", "}">>, <<"[", "a", "]">>, <<"a", " ", "b">>, <<"1", ".", "5">>, <<"-", "1">>}

RtNumbers == {Num(<<"0">>), Num(<<"7">>), Num(<<"1", "2">>), Num(<<"-", "1">>), Num(<<"1", ".", "5">>)}

RtScalars ==
    {Str(s) : s \in StringsUpTo(RtChars, MaxStrLen) \cup RtWords}
    \cup RtNumbers \cup {JsTrue, JsFalse, JsNull}

RtItems ==
    {Str(<<"a">>), Str(<<"1">>), Str(<<"n", "u", "l", "l">>), Str(<<"[", "[", "A", "]", "]">>),
     Str(<<"a", "\"">>), Num(<<"7">>), JsTrue, JsNull}

RECURSIVE SeqsUpTo(_, _)
SeqsUpTo(S, n) ==
    IF n = 0 THEN {<<>>}
    ELSE LET shorter == SeqsUpTo(S, n - 1)
         IN shorter \cup {Append(s, x) : s \in {y \in shorter : Len(y) = n - 1}, x \in S}

RtValues == RtScalars \cup {Arr(items) : items \in SeqsUpTo(RtItems, MaxArrLen)}

RtKeys == {<<"k">>, kStatus}

RtBody == << <<"b", "o", "d", "y">> >>

YamlInit ==
    /\ yaml \in {[stage |-> "mapping", mapping |-> Put(NoMap, key, v),
                   text |-> <<>>, parsed |-> NoMap] : key \in RtKeys, v \in RtValues}
    /\ inh = Idle /\ mt = Idle /\ af = Idle /\ run = Idle

YamlSerialize ==
    /\ yaml.stage = "mapping"
    /\ yaml' = [yaml EXCEPT !.stage = "text", !.text = serializeMarkdown(RtBody, yaml.mapping)]
    /\ UNCHANGED <<inh, mt, af, run>>

YamlParse ==
    /\ yaml.stage = "text"
    /\ yaml' = [yaml EXCEPT !.stage = "parsed",
                            !.parsed = parseMarkdownWithFrontmatter(yaml.text).frontmatter]
    /\ UNCHANGED <<inh, mt, af, run>>

YamlNext == YamlSerialize \/ YamlParse

SpecYaml == YamlInit /\ [][YamlNext]_vars

\* C2: for every mapping built from the scalar grammar, parsing the text that
\* serializeMarkdown produces gives back a mapping equal to the original.
RoundTripIsIdentity == yaml.stage = "parsed" => yaml.parsed = yaml.mapping

---------------------------------------------------------------------------
(* Schema matching *)

\* working[key], undefined when the key is absent
Get(m, key) == IF key \in DOMAIN m THEN m[key] ELSE JsUndef

normalizeString(value) ==
    IF IsNullish(value) THEN <<>> ELSE ToLower(Trim(JsString(value)))

\* the test of the loop over Object.entries(schema.match)
MatchOk(schema, working) ==
    \A k \in DOMAIN schema.match :
        normalizeString(Get(working, k)) = normalizeString(schema.match[k])

\* the record pushed to candidates for a schema
MatchEntry(schema, noteValue, folder) ==
    LET schemaFolder == IF IsStr(schema.folder) THEN schema.folder ELSE JsNull
        schemaId     == normalizeString(Str(schema.id))
    IN [schema       |-> schema,
        valueMatch   |-> noteValue # <<>> /\ schemaId # <<>> /\ noteValue = schemaId,
        folderMatch  |-> IF IsNull(schemaFolder) THEN FALSE ELSE schemaFolder.s = folder,
        schemaFolder |-> schemaFolder]

\* candidates.sort as a sort that leaves the candidates in the order of the list
SortCandidatesKeepOrder(candidates) == candidates

\* candidates.sort: value matches first, among equals folder matches first;
\* the sort is stable
SortCandidates(candidates) ==
    SelectSeq(candidates, LAMBDA c : c.valueMatch /\ c.folderMatch)
    \o SelectSeq(candidates, LAMBDA c : c.valueMatch /\ ~c.folderMatch)
    \o SelectSeq(candidates, LAMBDA c : ~c.valueMatch /\ c.folderMatch)
    \o SelectSeq(candidates, LAMBDA c : ~c.valueMatch /\ ~c.folderMatch)

\* the result null
NoPick ==
    [found |-> FALSE, schema |-> <<>>, matchedByValue |-> FALSE, matchedByFolder |-> FALSE,
     folderMismatch |-> FALSE, preferredFolder |-> JsNull]

pickBestSchemaByDiscriminator(schemas, discriminator, noteValue, folder, working) ==
    LET entries    == [i \in 1..Len(schemas) |-> MatchEntry(schemas[i], noteValue, folder)]
        candidates == SelectSeq(entries, LAMBDA c :
                          /\ c.schema.discriminator = discriminator
                          /\ (c.valueMatch \/ c.folderMatch)
                          /\ MatchOk(c.schema, working))
    IN IF candidates = <<>> THEN NoPick
       ELSE LET best == SortCandidates(candidates)[1]
            IN [found           |-> TRUE,
                schema          |-> <<best.schema>>,
                matchedByValue  |-> best.valueMatch,
                matchedByFolder |-> best.folderMatch,
                folderMismatch  |-> /\ best.valueMatch
                                    /\ ~IsNull(best.schemaFolder)
                                    /\ best.schemaFolder.s # folder,
                preferredFolder |-> best.schemaFolder]

\* relPath.split('/')[0]
FirstSegment(relPath) == SplitOn(relPath, "/")[1]

\* typeSchema is the empty sequence for null, else the one schema
pickSchemasForFile(relPath, working, schemas) ==
    LET typeCandidate == pickBestSchemaByDiscriminator(
                             schemas, sType, normalizeString(Get(working, kType)),
                             FirstSegment(relPath), working)
    IN [typeSchema          |-> typeCandidate.schema,
        typeFolderMismatch  |-> typeCandidate.folderMismatch,
        typePreferredFolder |-> typeCandidate.preferredFolder]

(* The matcher on its own: a list of loaded schemas in any order (no two    *)
(* with the same discriminator and id, as loadSchemas keeps one per key), a  *)
(* property block and a folder.                                              *)

MaxMatchSchemas == 2

\* a resolved schema: a type schema always has a folder string, another
\* discriminator only comes from a schema written as a code block
MatchSchema(id, discriminator, folder, match) ==
    [id |-> id, discriminator |-> discriminator, extends |-> JsNull, purpose |-> JsNull,
     prependDateToTitle |-> JsUndef, folder |-> folder, required |-> <<kType>>,
     properties |-> NoMap, pairRulesByField |-> NoMap, match |-> match]

MatchPool ==
    {MatchSchema(id, sType, Str(f), mm) :
        id \in {<<"m">>, <<"p">>},
        f \in {<<>>, <<"F">>},
        mm \in {NoMap, [x \in {kStatus} |-> Str(<<"x">>)]}}
    \cup {MatchSchema(<<"m">>, <<"k", "i", "n", "d">>, JsNull, NoMap)}

MatchLists ==
    {s \in UNION {[1..n -> MatchPool] : n \in 1..MaxMatchSchemas} :
        \A i \in 1..Len(s), j \in 1..Len(s) : i # j => KeyOf(s[i]) # KeyOf(s[j])}

MatchBlocks ==
    {[x \in keys |-> IF x = kType THEN t ELSE Str(<<"x">>)] :
        keys \in {{}, {kType}, {kStatus}, {kType, kStatus}},
        t \in {Str(<<"m">>), Str(<<" ", "M">>)}}

MatchInit ==
    /\ mt \in {[stage |-> "input", schemas |-> s, working |-> w, relPath |-> p, pick |-> NoPick] :
                  s \in MatchLists, w \in MatchBlocks,
                  p \in {<<"F", "/", "n", ".", "m", "d">>, <<"G", "/", "n", ".", "m", "d">>}}
    /\ yaml = Idle /\ inh = Idle /\ af = Idle /\ run = Idle

MatchPick ==
    /\ mt.stage = "input"
    /\ mt' = [mt EXCEPT
                !.stage = "picked",
                !.pick = pickBestSchemaByDiscriminator(
                             mt.schemas, sType, normalizeString(Get(mt.working, kType)),
                             FirstSegment(mt.relPath), mt.working)]
    /\ UNCHANGED <<yaml, inh, af, run>>

MatchNext == MatchPick

SpecMatch == MatchInit /\ [][MatchNext]_vars

MtNoteValue == normalizeString(Get(mt.working, kType))

\* the schemas of the list whose id is the document's normalized type value
MtValueMatching == {i \in 1..Len(mt.schemas) : mt.schemas[i].id = MtNoteValue}

\* those of them that the matcher may select: the discriminator is `type` and
\* the document satisfies the schema's match constraints
MtEligible ==
    {i \in MtValueMatching :
        mt.schemas[i].discriminator = sType /\ MatchOk(mt.schemas[i], mt.working)}

MtFolderMatching ==
    {i \in 1..Len(mt.schemas) :
        IsStr(mt.schemas[i].folder) /\ mt.schemas[i].folder.s = FirstSegment(mt.relPath)}

\* C7 as stated: whenever some schema's id equals the document's normalized
\* type value, a value-matching schema is selected.
MatchingPrecedenceAnySchema ==
    (mt.stage = "picked" /\ MtValueMatching # {}) =>
        /\ mt.pick.found
        /\ mt.pick.matchedByValue

\* C7: whenever some schema of discriminator `type` whose match constraints the
\* document satisfies has an id equal to the document's normalized type value,
\* the selected schema is such a schema (never one that matches by folder
\* only), and it also matches by folder if any such schema does, in every order
\* of the list.
MatchingPrecedence ==
    (mt.stage = "picked" /\ MtEligible # {}) =>
        /\ mt.pick.found
        /\ mt.pick.matchedByValue
        /\ \E i \in MtEligible : mt.pick.schema = <<mt.schemas[i]>>
        /\ (MtEligible \cap MtFolderMatching # {}) => mt.pick.matchedByFolder

\* a folder-only schema is listed before the value-matching one, and the
\* value-matching one, in another folder, is selected
MatchingPrecedenceWitness ==
    /\ mt.stage = "picked"
    /\ Len(mt.schemas) = 2
    /\ 1 \in MtFolderMatching \ MtValueMatching
    /\ 2 \in MtEligible \ MtFolderMatching
    /\ mt.pick.schema = <<mt.schemas[2]>>
    /\ mt.pick.folderMismatch

---------------------------------------------------------------------------
(* Broad autofix, schema autofix and validation.  The functions of the code  *)
(* mutate `working` and push to `fixes`; here each takes and returns the     *)
(* record st = [w |-> working, fixes |-> fixes].  A fix or a violation is a  *)
(* record of the fixed part of its message and the part that varies.         *)

Fix(msg, arg) == [msg |-> msg, arg |-> arg]

AddFix(st, msg, arg) == [st EXCEPT !.fixes = Append(@, Fix(msg, arg))]

PutW(st, key, val) == [st EXCEPT !.w = Put(@, key, val)]

DelW(st, key) == [st EXCEPT !.w = Del(@, key)]

\* F applied to the value of v: the value is computed once, however often F
\* refers to it
Then(v, F(_)) == CHOOSE r \in {F(x) : x \in {v}} : TRUE

\* s.slice(n, -n)
SliceMid(s, n) == IF Len(s) <= 2 * n THEN <<>> ELSE SubSeq(s, n + 1, Len(s) - n)

kKind == <<"k", "i", "n", "d">>

kSubtype == <<"s", "u", "b", "t", "y", "p", "e">>

FOLDER_TYPE_MAP ==
    (<<"D", "a", "i", "l", "i", "e", "s">> :> <<"d", "a", "i", "l", "y">>) @@ (<<"M", "e", "e", "t", "i", "n", "g", "s">> :> <<"m", "e", "e", "t", "i", "n", "g">>)
    @@ (<<"P", "r", "o", "j", "e", "c", "t", "s">> :> <<"p", "r", "o", "j", "e", "c", "t">>) @@ (<<"E", "n", "t", "i", "t", "i", "e", "s">> :> <<"e", "n", "t", "i", "t", "y">>)
    @@ (<<"S", "u", "b", "j", "e", "c", "t", "s">> :> <<"s", "u", "b", "j", "e", "c", "t">>) @@ (<<"S", "o", "u", "r", "c", "e", "s">> :> <<"s", "o", "u", "r", "c", "e">>)
    @@ (<<"R", "e", "a", "d", "w", "i", "s", "e">> :> <<"s", "o", "u", "r", "c", "e">>) @@ (<<"L", "o", "g", "s">> :> <<"l", "o", "g">>)

LEGACY_TYPE_MAP ==
    (<<"e", "n", "t", "i", "t", "y", "-", "p", "e", "r", "s", "o", "n">> :> Str(<<"p", "e", "r", "s", "o", "n">>)) @@ (<<"e", "n", "t", "i", "t", "y", "-", "b", "o", "d", "y">> :> Str(<<"b", "o", "d", "y">>))
    @@ (<<"e", "n", "t", "i", "t", "y", "-", "g", "r", "o", "u", "p">> :> Str(<<"g", "r", "o", "u", "p">>)) @@ (<<"e", "n", "t", "i", "t", "y", "-", "p", "l", "a", "c", "e">> :> Str(<<"p", "l", "a", "c", "e">>))
    @@ (<<"e", "n", "t", "i", "t", "y", "-", "c", "o", "u", "n", "t", "r", "y">> :> Str(<<"c", "o", "u", "n", "t", "r", "y">>)) @@ (<<"e", "n", "t", "i", "t", "y", "-", "s", "e", "s", "s", "i", "o", "n">> :> Str(<<"s", "e", "s", "s", "i", "o", "n">>))
    @@ (<<"s", "o", "u", "r", "c", "e", "-", "a", "r", "t", "i", "c", "l", "e">> :> Str(<<"a", "r", "t", "i", "c", "l", "e">>)) @@ (<<"s", "o", "u", "r", "c", "e", "-", "b", "o", "o", "k">> :> Str(<<"b", "o", "o", "k">>))
    @@ (<<"s", "o", "u", "r", "c", "e", "-", "p", "a", "p", "e", "r">> :> Str(<<"p", "a", "p", "e", "r">>)) @@ (<<"s", "o", "u", "r", "c", "e", "-", "r", "e", "p", "o", "r", "t">> :> Str(<<"r", "e", "p", "o", "r", "t">>))
    @@ (<<"l", "o", "c", "a", "t", "i", "o", "n">> :> Str(<<"p", "l", "a", "c", "e">>)) @@ (<<"n", "o", "t", "e">> :> JsNull) @@ (<<"n", "o", "n", "e">> :> JsNull)

LEGACY_SUBTYPE_MAP == (<<"l", "o", "c", "a", "t", "i", "o", "n">> :> <<"p", "l", "a", "c", "e">>)

TERMINAL_STATUSES == {<<"d", "o", "n", "e">>, <<"s", "u", "p", "e", "r", "s", "e", "d", "e", "d">>, <<"c", "a", "n", "c", "e", "l", "l", "e", "d">>}

isWikiLink(value) == WikiLinkShaped(Trim(value))

toWikiLink(value) ==
    LET t       == Trim(value)
        noHead  == IF StartsWith(t, <<"[", "[">>) THEN DropFirst(t, 2) ELSE t
        cleaned == IF EndsWith(noHead, <<"]", "]">>) THEN DropLast(noHead, 2) ELSE noHead
    IN <<"[", "[">> \o cleaned \o <<"]", "]">>

\* /^\d{4}-\d{2}-\d{2}$/
IsDateText(s) ==
    /\ Len(s) = 10
    /\ \A i \in {1, 2, 3, 4, 6, 7, 9, 10} : IsDigit(s[i])
    /\ s[5] = "-" /\ s[8] = "-"

\* \w
IsWordChar(c) ==
    \/ IsDigit(c) \/ c = "_"
    \/ \E i \in 1..Len(LowerChars) : c = LowerChars[i] \/ c = UpperChars[i]

\* /^(\d{4}-\d{2}-\d{2})\b/ : a date, then the end or a character that is not
\* a word character
HasDatePrefix(s) ==
    /\ Len(s) >= 10
    /\ IsDateText(SubSeq(s, 1, 10))
    /\ (Len(s) = 10 \/ ~IsWordChar(s[11]))

\* path.posix.dirname of a relative path
Dirname(p) ==
    LET parts == SplitOn(p, "/")
    IN IF Len(parts) = 1 THEN <<".">> ELSE JoinWith(DropLast(parts, 1), <<"/">>)

\* path.basename(p)
Basename(p) == LET parts == SplitOn(p, "/") IN parts[Len(parts)]

\* path.basename(p, '.md')
BasenameNoExt(p) ==
    LET b == Basename(p)
    IN IF EndsWith(b, <<".", "m", "d">>) /\ Len(b) > 3 THEN DropLast(b, 3) ELSE b

normalizeTypeValue(st) ==
    LET t == Get(st.w, kType)
        Unwrap(v) == IF StartsWith(v, <<"[", "[">>) /\ EndsWith(v, <<"]", "]">>) THEN SliceMid(v, 2) ELSE v
        Unquoted(v) == IF StartsWith(v, <<"\"">>) /\ EndsWith(v, <<"\"">>) THEN SliceMid(v, 1) ELSE v
        None(v) == IF ToLower(v) = <<"n", "o", "n", "e">> THEN <<"n", "o", "n", "e">> ELSE v
        Finish(val) ==
            LET s1 == IF IsStr(t) THEN st ELSE AddFix(st, "coerced type to string", <<>>)
            IN IF val = <<"[", "o", "b", "j", "e", "c", "t", " ", "O", "b", "j", "e", "c", "t", "]">>
               THEN AddFix(DelW(s1, kType), "cleared invalid 'type' sentinel value", <<>>)
               ELSE PutW(s1, kType, Str(val))
    IN IF IsNullish(t) THEN st
       ELSE IF t.k \in {"arr", "obj"}
       THEN AddFix(DelW(st, kType), "cleared invalid non-scalar 'type'", <<>>)
       ELSE Then(Then(Then(Then(Trim(JsString(t)), Unwrap), Unquoted), None), Finish)

\* one round of the loop over ['tags', 'aliases', 'children', 'attendees']
CoerceToArray(st, key) ==
    LET v == Get(st.w, key)
    IN IF ~IsNullish(v) /\ ~IsArr(v)
       THEN LET t == Trim(JsString(v))
            IN AddFix(PutW(st, key, Arr(IF t = <<>> THEN <<>> ELSE <<Str(t)>>)),
                      "coerced to array", key)
       ELSE st

RECURSIVE FoldKeys(_, _, _)
FoldKeys(Step(_, _), st, keys) ==
    IF keys = <<>> THEN st
    ELSE Then(Step(st, Head(keys)), LAMBDA next : FoldKeys(Step, next, Tail(keys)))

applyBroadAutofix(relPath, filePath, st) ==
    LET folder   == FirstSegment(relPath)
        filename == BasenameNoExt(filePath)
        Legacy(s) ==
            LET currentType == normalizeString(Get(s.w, kType))
            IN IF /\ currentType # <<>>
                  /\ currentType \in DOMAIN LEGACY_TYPE_MAP
                  /\ Truthy(LEGACY_TYPE_MAP[currentType])
               THEN AddFix(PutW(s, kType, LEGACY_TYPE_MAP[currentType]), "legacy type", currentType)
               ELSE s
        Kind(s) ==
            LET kind    == Get(s.w, kKind)
                subtype == Get(s.w, kSubtype)
            IN IF kind.k = "undef" THEN s
               ELSE IF IsNullish(subtype) \/ subtype = Str(<<>>)
               THEN DelW(AddFix(PutW(s, kSubtype, kind), "migrated 'kind' -> 'subtype'", <<>>), kKind)
               ELSE DelW(s, kKind)
        Flatten(s) ==
            LET baseType == normalizeString(Get(s.w, kType))
                subtype  == Get(s.w, kSubtype)
            IN IF /\ baseType \in {<<"e", "n", "t", "i", "t", "y">>, <<"s", "o", "u", "r", "c", "e">>}
                  /\ ~IsNullish(subtype)
                  /\ Trim(JsString(subtype)) # <<>>
               THEN LET subtypeNorm == normalizeString(subtype)
                        flattened   == IF subtypeNorm \in DOMAIN LEGACY_SUBTYPE_MAP
                                       THEN LEGACY_SUBTYPE_MAP[subtypeNorm] ELSE subtypeNorm
                    IN AddFix(DelW(PutW(s, kType, Str(flattened)), kSubtype),
                              "flattened type/subtype", flattened)
               ELSE IF subtype.k # "undef"
               THEN AddFix(DelW(s, kSubtype), "removed deprecated 'subtype'", <<>>)
               ELSE s
        Infer(s) ==
            IF ~Truthy(Get(s.w, kType)) \/ normalizeString(Get(s.w, kType)) = <<"n", "o", "n", "e">>
            THEN IF folder \in DOMAIN FOLDER_TYPE_MAP
                 THEN AddFix(PutW(s, kType, Str(FOLDER_TYPE_MAP[folder])),
                             "inferred type from folder", folder)
                 ELSE IF folder = <<>>
                 THEN AddFix(PutW(s, kType, Str(<<"n", "o", "t", "e">>)),
                             "inferred type='note' for root note without type", <<>>)
                 ELSE s
            ELSE s
        Normalized(s) ==
            LET normalizedType == normalizeString(Get(s.w, kType))
            IN IF normalizedType # <<>> THEN PutW(s, kType, Str(normalizedType)) ELSE s
        Dailies(s) ==
            IF folder = <<"D", "a", "i", "l", "i", "e", "s">> /\ ~Truthy(Get(s.w, kDate)) /\ IsDateText(filename)
            THEN AddFix(PutW(s, kDate, Str(filename)), "added date from filename", filename)
            ELSE s
        Meetings(s) ==
            IF folder = <<"M", "e", "e", "t", "i", "n", "g", "s">> /\ HasDatePrefix(filename) /\ ~Truthy(Get(s.w, kDate))
            THEN AddFix(PutW(s, kDate, Str(SubSeq(filename, 1, 10))),
                        "added meeting date from filename", SubSeq(filename, 1, 10))
            ELSE s
        Arrays(s) == FoldKeys(CoerceToArray, s, <<kTags, kAliases, kChildren, <<"a", "t", "t", "e", "n", "d", "e", "e", "s">>>>)
        Parent(s) ==
            LET parent == Get(s.w, kParent)
            IN IF IsStr(parent) /\ Trim(parent.s) # <<>> /\ ~isWikiLink(parent.s)
               THEN AddFix(PutW(s, kParent, Str(toWikiLink(parent.s))),
                           "normalized parent to wikilink", <<>>)
               ELSE s
    IN Then(Then(Then(Then(Then(Then(Then(Then(Then(Then(st,
           normalizeTypeValue), Legacy), Kind), Flatten), Infer), Normalized),
           Dailies), Meetings), Arrays), Parent)

\* prop is schema.properties[key], undefined when the schema does not define key
blankValueForProperty(properties, key) ==
    IF key \notin DOMAIN properties \/ properties[key].type = "" THEN Str(<<>>)
    ELSE IF properties[key].type = "array" THEN Arr(<<>>)
    ELSE JsNull

hasMeaningfulRequiredValue(value) ==
    IF IsNullish(value) THEN FALSE
    ELSE IF IsStr(value) THEN Trim(value.s) # <<>>
    ELSE IF IsArr(value) THEN value.a # <<>>
    ELSE TRUE

\* one round of the loop over schema.required
RequiredStep(schema, st, key) ==
    LET v == Get(st.w, key)
    IN IF v.k = "undef"
       THEN IF key \in DOMAIN schema.properties /\ schema.properties[key].hasDefault
            THEN AddFix(PutW(st, key, cloneValue(schema.properties[key].default)),
                        "added required from schema default", key)
            ELSE AddFix(PutW(st, key, blankValueForProperty(schema.properties, key)),
                        "added required (blank)", key)
       ELSE IF IsStr(v) /\ Trim(v.s) = <<>>
       THEN AddFix(PutW(st, key, JsNull), "normalized required empty->null", key)
       ELSE st

\* prop.enum.find taken as finding no entry
EnumFindNone(enum, lowered) == 0

\* prop.enum.find((entry) => String(entry).toLowerCase() === lowered): the
\* position of the entry, 0 when there is none
EnumFind(enum, lowered) ==
    LET hits == {i \in 1..Len(enum) : ToLower(JsString(enum[i])) = lowered}
    IN IF hits = {} THEN 0 ELSE CHOOSE i \in hits : \A j \in hits : i <= j

\* one round of the loop over Object.entries(schema.properties)
PropertyStep(schema, st, key) ==
    LET prop  == schema.properties[key]
        value == Get(st.w, key)
        ArrayToString(s) ==
            IF prop.type = "string" /\ IsArr(value) /\ Len(value.a) = 1
            THEN AddFix(PutW(s, key, Str(JsString(value.a[1]))), "coerced array->string", key)
            ELSE s
        ToArray(s) ==
            IF prop.type = "array" /\ ~IsArr(value)
            THEN AddFix(PutW(s, key, Arr(<<Str(JsString(value))>>)), "coerced string->array", key)
            ELSE s
        Trimmed(s) ==
            IF prop.type = "string" /\ IsStr(s.w[key])
            THEN PutW(s, key, Str(Trim(s.w[key].s)))
            ELSE s
        EnumCase(s) ==
            LET i == IF prop.hasEnum /\ IsStr(s.w[key])
                     THEN EnumFind(prop.enum, ToLower(s.w[key].s)) ELSE 0
            IN IF i # 0 /\ prop.enum[i] # s.w[key]
               THEN AddFix(PutW(s, key, prop.enum[i]), "normalized enum case", key)
               ELSE s
        WikiLink(s) ==
            IF /\ prop.format = "wikilink"
               /\ IsStr(s.w[key])
               /\ Trim(s.w[key].s) # <<>>
               /\ ~isWikiLink(s.w[key].s)
            THEN AddFix(PutW(s, key, Str(toWikiLink(s.w[key].s))), "normalized to wikilink", key)
            ELSE s
    IN IF value.k = "undef" THEN st
       ELSE Then(Then(Then(Then(Then(st, ArrayToString), ToArray), Trimmed), EnumCase), WikiLink)

\* Object.entries visits the properties in the order the schema note declares
\* them; no round reads or writes another round's key, so the model visits
\* them in sorted order
applySchemaAutofix(schema, st) ==
    Then(FoldKeys(LAMBDA s, key : RequiredStep(schema, s, key), st, schema.required),
         LAMBDA afterRequired :
             FoldKeys(LAMBDA s, key : PropertyStep(schema, s, key),
                      afterRequired, SortStrings(DOMAIN schema.properties)))

Violation(rule, field) == [rule |-> rule, field |-> field]

\* prop.enum.includes(value): strict equality, which no array or object
\* satisfies
EnumIncludes(enum, value) ==
    value.k \notin {"arr", "obj"} /\ \E i \in 1..Len(enum) : enum[i] = value

\* one round of the second loop of validateAgainstSchema
PropertyViolations(schema, working, key) ==
    LET prop  == schema.properties[key]
        value == Get(working, key)
    IN IF IsNullish(value) \/ value = Str(<<>>) THEN <<>>
       ELSE IF prop.type = "string" /\ ~IsStr(value) THEN <<Violation("type", key)>>
       ELSE IF prop.type = "array" /\ ~IsArr(value) THEN <<Violation("type", key)>>
       ELSE (IF prop.hasEnum /\ ~EnumIncludes(prop.enum, value)
             THEN <<Violation("enum", key)>> ELSE <<>>)
            \o (IF prop.format = "wikilink" /\ IsStr(value) /\ ~isWikiLink(value.s)
                THEN <<Violation("format", key)>> ELSE <<>>)

RECURSIVE ConcatMap(_, _)
ConcatMap(F(_), keys) ==
    IF keys = <<>> THEN <<>> ELSE F(Head(keys)) \o ConcatMap(F, Tail(keys))

validateAgainstSchema(schema, working) ==
    ConcatMap(LAMBDA key : IF hasMeaningfulRequiredValue(Get(working, key)) THEN <<>>
                           ELSE <<Violation("required", key)>>,
              schema.required)
    \o ConcatMap(LAMBDA key : PropertyViolations(schema, working, key),
                 SortStrings(DOMAIN schema.properties))

\* applyBroadAutofix, then applySchemaAutofix for the schema that
\* pickSchemasForFile selects (processFile, from the call of applyBroadAutofix
\* to the call of applySchemaAutofix)
AutofixPass(relPath, working, fixes, schemas) ==
    LET Matched(broad) ==
            Then(pickSchemasForFile(relPath, broad.w, schemas),
                 LAMBDA matchInfo :
                     Then(IF matchInfo.typeSchema = <<>> THEN broad
                          ELSE applySchemaAutofix(matchInfo.typeSchema[1], broad),
                          LAMBDA fixed :
                              [w |-> fixed.w, fixes |-> fixed.fixes, matchInfo |-> matchInfo]))
    IN Then(applyBroadAutofix(relPath, relPath, [w |-> working, fixes |-> fixes]), Matched)

\* processFile up to the computation of `changed`
DocumentPass(relPath, frontmatter, schemas) ==
    LET kFixNotes == <<"f", "i", "x", "_", "n", "o", "t", "e", "s">>
        kReview   == <<"n", "e", "e", "d", "s", "_", "r", "e", "v", "i", "e", "w">>
        s0 == [w |-> frontmatter, fixes |-> <<>>]
        FixNotes(s) ==
            IF Has(s.w, kFixNotes)
            THEN DelW(IF Has(s.w, kSchemaNotes) THEN s
                      ELSE AddFix(PutW(s, kSchemaNotes, s.w[kFixNotes]),
                                  "migrated 'fix_notes' -> 'schema_notes'", <<>>),
                      kFixNotes)
            ELSE s
        NeedsReview(s) ==
            IF Has(s.w, kReview)
            THEN AddFix(DelW(s, kReview), "removed deprecated 'needs_review'", <<>>)
            ELSE s
        Fixed(s) == AutofixPass(relPath, s.w, s.fixes, schemas)
        Validated(pass) ==
            LET violations == IF pass.matchInfo.typeSchema = <<>>
                              THEN <<Violation("schema/not-found", relPath)>>
                              ELSE validateAgainstSchema(pass.matchInfo.typeSchema[1], pass.w)
                \* nothing has been pushed to `ambiguous` when processFile comes
                \* to schema_notes: applySchemaAutofix does not push to it, and
                \* the move conflict is pushed further down; so the branch
                \* that calls ensureSchemaNotes is not taken
                s3 == IF Has(pass.w, kSchemaNotes)
                      THEN AddFix(DelW([w |-> pass.w, fixes |-> pass.fixes], kSchemaNotes),
                                  "cleared stale 'schema_notes'", <<>>)
                      ELSE [w |-> pass.w, fixes |-> pass.fixes]
            IN [working |-> s3.w, fixes |-> s3.fixes, violations |-> violations,
                matchInfo |-> pass.matchInfo]
    IN Then(Then(Then(Then(s0, FixNotes), NeedsReview), Fixed), Validated)

---------------------------------------------------------------------------
(* The schemas of the vault that the autofix and the run specifications use, *)
(* as loadSchemas returns them for these schema notes:                       *)
(*   meeting: type: meeting, folder: Meetings, prependDateToTitle: true,     *)
(*            date*: (empty), labels*: [x, y], status: "open, done"          *)
(*   thing:   id: thing, folder: Things, title: (empty)                      *)
(*   project: type: project, folder: Projects, leads: [], pair.leads:        *)
(*            person.projects                                                *)
(*   person:  type: person, folder: People, projects: []                     *)
(* parseNativeMarkdownSchema appends `type` to the required fields of each.  *)

kLabels == <<"l", "a", "b", "e", "l", "s">>

kLeads == <<"l", "e", "a", "d", "s">>

kProjects == <<"p", "r", "o", "j", "e", "c", "t", "s">>

Schema(id, folder, prependDateToTitle, required, properties, pairRulesByField) ==
    [id |-> id, discriminator |-> sType, extends |-> JsNull, purpose |-> JsNull,
     prependDateToTitle |-> prependDateToTitle, folder |-> Str(folder),
     required |-> required, properties |-> properties,
     pairRulesByField |-> pairRulesByField, match |-> NoMap]

MeetingSchema ==
    Schema(<<"m", "e", "e", "t", "i", "n", "g">>, <<"M", "e", "e", "t", "i", "n", "g", "s">>, JsTrue, <<kDate, kLabels, kType>>,
           (kType :> PlainProp("string")) @@ (kDate :> PlainProp("string"))
           @@ (kLabels :> PropDef("array", TRUE, <<Str(<<"x">>), Str(<<"y">>)>>, FALSE, JsNull, ""))
           @@ (kStatus :> PropDef("string", TRUE, <<Str(<<"o", "p", "e", "n">>), Str(<<"d", "o", "n", "e">>)>>, FALSE, JsNull, "")),
           NoMap)

ThingSchema ==
    Schema(<<"t", "h", "i", "n", "g">>, <<"T", "h", "i", "n", "g", "s">>, JsUndef, <<kType>>, (kTitle :> PlainProp("string")), NoMap)

kOwner == <<"o", "w", "n", "e", "r">>

kOwns == <<"o", "w", "n", "s">>

\* leads pairs with the list person.projects, owner with the single person.owns
ProjectSchema ==
    Schema(<<"p", "r", "o", "j", "e", "c", "t">>, <<"P", "r", "o", "j", "e", "c", "t", "s">>, JsUndef, <<kType>>,
           (kType :> PlainProp("string")) @@ (kLeads :> PlainProp("array")),
           (kLeads :> PairRule(kLeads, Str(<<"p", "e", "r", "s", "o", "n">>), kProjects))
           @@ (kOwner :> PairRule(kOwner, Str(<<"p", "e", "r", "s", "o", "n">>), kOwns)))

PersonSchema ==
    Schema(<<"p", "e", "r", "s", "o", "n">>, <<"P", "e", "o", "p", "l", "e">>, JsUndef, <<kType>>,
           (kType :> PlainProp("string")) @@ (kProjects :> PlainProp("array"))
           @@ (kOwns :> PlainProp("string")),
           NoMap)

---------------------------------------------------------------------------
(* The autofix pass on one document: the pass applied once and then again to *)
(* its own output, and the check of the document as it was.                  *)

AfSchemas == <<MeetingSchema, ThingSchema>>

AfPaths == {<<"M", "e", "e", "t", "i", "n", "g", "s", "/", "n", ".", "m", "d">>, <<"T", "h", "i", "n", "g", "s", "/", "n", ".", "m", "d">>, <<"n", ".", "m", "d">>}

\* the values a key of the document may have; the empty set member stands for
\* the key being absent
AfChoices ==
    (kType :> {Str(<<"m", "e", "e", "t", "i", "n", "g">>), Str(<<"e", "n", "t", "i", "t", "y">>)})
    @@ (kSubtype :> {Str(<<"e", "n", "t", "i", "t", "y", "-", "p", "e", "r", "s", "o", "n">>)})
    @@ (kDate :> {Str(<<>>), Str(<<"2", "0", "2", "4", "-", "0", "1", "-", "0", "1">>)})
    @@ (kLabels :> {Str(<<"x">>), Arr(<<Str(<<"x">>)>>)})
    @@ (kStatus :> {Str(<<"D", "o", "n", "e">>)})

AfBlocks ==
    UNION {[keys -> UNION {AfChoices[k] : k \in keys}] : keys \in SUBSET DOMAIN AfChoices}

AfInit ==
    /\ af \in {[stage |-> "input", relPath |-> p, original |-> w, before |-> w, working |-> w,
                fixes |-> <<>>, violations |-> <<>>, passes |-> 0, schema |-> <<>>] :
                  p \in AfPaths,
                  w \in {b \in AfBlocks : \A k \in DOMAIN b : b[k] \in AfChoices[k]}}
    /\ yaml = Idle /\ inh = Idle /\ mt = Idle /\ run = Idle

\* the autofix pass on the property block as the previous pass left it
AfFix ==
    /\ af.stage \in {"input", "fixed"}
    /\ af.passes < 2
    /\ \E pass \in {AutofixPass(af.relPath, af.working, <<>>, AfSchemas)} :
          af' = [af EXCEPT !.stage = "fixed",
                           !.before = af.working,
                           !.working = pass.w,
                           !.fixes = pass.fixes,
                           !.schema = pass.matchInfo.typeSchema,
                           !.passes = @ + 1]
    /\ UNCHANGED <<yaml, inh, mt, run>>

\* the per-document pass of a check run on the document as it was
AfCheck ==
    /\ af.stage = "input"
    /\ \E pass \in {DocumentPass(af.relPath, af.original, AfSchemas)} :
          af' = [af EXCEPT !.stage = "checked",
                           !.working = pass.working,
                           !.fixes = pass.fixes,
                           !.schema = pass.matchInfo.typeSchema,
                           !.violations = pass.violations]
    /\ UNCHANGED <<yaml, inh, mt, run>>

AfNext == AfFix \/ AfCheck

SpecAutofix == AfInit /\ [][AfNext]_vars

\* C1: the second autofix pass leaves the property block as the first pass
\* left it and records no fix.
AutofixIdempotent ==
    (af.stage = "fixed" /\ af.passes = 2) => (af.working = af.before /\ af.fixes = <<>>)

\* the required fields of the matched schema that have no default and that the
\* document lacks when applySchemaAutofix starts
AfMissingRequired ==
    IF af.schema = <<>> THEN {}
    ELSE LET schema == af.schema[1]
             broad  == applyBroadAutofix(af.relPath, af.relPath,
                                         [w |-> af.original, fixes |-> <<>>])
         IN {key \in SeqSet(schema.required) :
                /\ ~Has(broad.w, key)
                /\ ~(key \in DOMAIN schema.properties /\ schema.properties[key].hasDefault)}

IsBlank(value) == value \in {Str(<<>>), JsNull, Arr(<<>>)}

\* C10: a required field without default that the document lacks is present
\* and blank after the autofix pass, and the check of the original document
\* reports exactly one violation for it.
RequiredFieldFill ==
    \A key \in AfMissingRequired :
        /\ (af.stage = "fixed" /\ af.passes = 1) =>
               (Has(af.working, key) /\ IsBlank(af.working[key]))
        /\ af.stage = "checked" =>
               Cardinality({i \in 1..Len(af.violations) : af.violations[i].field = key}) = 1

---------------------------------------------------------------------------
(* The per-document pass with relocation.  A path is the text of the path   *)
(* relative to the vault root; the vault maps the path of each note to its  *)
(* text.  A file system mutation is recorded as [op, path].                 *)

Op(op, path) == [op |-> op, path |-> path]

\* the date at the start of the value, the empty string for null
normalizeDateToken(value) ==
    IF IsNullish(value) THEN <<>>
    ELSE LET v == Trim(JsString(value))
         IN IF HasDatePrefix(v) THEN SubSeq(v, 1, 10) ELSE <<>>

\* the name, and the fix that the function pushes
getDesiredDatedBaseName(schema, frontmatter, currentBaseName) ==
    LET date == normalizeDateToken(Get(frontmatter, kDate))
        stem == BasenameNoExt(currentBaseName)
    IN IF schema = <<>> \/ ~Truthy(schema[1].prependDateToTitle) \/ date = <<>>
          \/ HasDatePrefix(stem)
       THEN [name |-> currentBaseName, fixes |-> <<>>]
       ELSE [name  |-> date \o <<" ">> \o stem \o <<".", "m", "d">>,
             fixes |-> <<Fix("prepended date to title", date)>>]

\* fs.access(targetPath) succeeds
TargetOccupiedNever(vault, targetRelPath) == FALSE

TargetOccupied(vault, targetRelPath) == targetRelPath \in DOMAIN vault

\* the folder with the schema's folder and the move to the root taken before
\* the terminal status
TargetDirStatusLast(working, matchInfo, hadTypeAtStart, currentFolder, currentDirRel) ==
    IF ~hadTypeAtStart /\ currentFolder # <<>> THEN <<>>
    ELSE IF /\ matchInfo.typeSchema # <<>>
            /\ matchInfo.typeFolderMismatch
            /\ ~IsNull(matchInfo.typePreferredFolder)
            /\ currentFolder # <<"T", "e", "m", "p", "l", "a", "t", "e", "s">>
    THEN matchInfo.typePreferredFolder.s
    ELSE IF normalizeString(Get(working, kStatus)) \in TERMINAL_STATUSES
    THEN <<"A", "r", "c", "h", "i", "v", "e">>
    ELSE currentDirRel

\* the folder without the exception for notes in Templates
TargetDirNoTemplates(working, matchInfo, hadTypeAtStart, currentFolder, currentDirRel) ==
    IF normalizeString(Get(working, kStatus)) \in TERMINAL_STATUSES THEN <<"A", "r", "c", "h", "i", "v", "e">>
    ELSE IF ~hadTypeAtStart /\ currentFolder # <<>> THEN <<>>
    ELSE IF /\ matchInfo.typeSchema # <<>>
            /\ matchInfo.typeFolderMismatch
            /\ ~IsNull(matchInfo.typePreferredFolder)
    THEN matchInfo.typePreferredFolder.s
    ELSE currentDirRel

\* the folder that processFile wants the note in
TargetDir(working, matchInfo, hadTypeAtStart, currentFolder, currentDirRel) ==
    IF normalizeString(Get(working, kStatus)) \in TERMINAL_STATUSES THEN <<"A", "r", "c", "h", "i", "v", "e">>
    ELSE IF ~hadTypeAtStart /\ currentFolder # <<>> THEN <<>>
    ELSE IF /\ matchInfo.typeSchema # <<>>
            /\ matchInfo.typeFolderMismatch
            /\ ~IsNull(matchInfo.typePreferredFolder)
            /\ currentFolder # <<"T", "e", "m", "p", "l", "a", "t", "e", "s">>
    THEN matchInfo.typePreferredFolder.s
    ELSE currentDirRel

\* the fix that describes a move; prefix is "" or "would "
MoveFix(prefix, hadTypeAtStart, currentFolder, targetDirRel, currentDirRel, targetRelPath) ==
    IF ~hadTypeAtStart /\ currentFolder # <<>>
    THEN Fix(prefix, <<"move file without type to root", targetRelPath>>)
    ELSE IF targetDirRel # currentDirRel
    THEN Fix(prefix, <<"move file based on schema folder", targetRelPath>>)
    ELSE Fix(prefix, <<"rename file", targetRelPath>>)

\* processFile: the result pushed to report.files, the vault after the call
\* and the mutations the call made.  deepEqual compares the two mappings.
processFile(file, vault, schemas, mode, write) ==
    LET relPath == file
        doWrite == mode = "fix" /\ write
        Located(parsed, pass) ==
            LET dir == Dirname(relPath)
            IN [hadTypeAtStart |-> normalizeString(Get(parsed.frontmatter, kType)) # <<>>,
                currentFolder  |-> IF dir = <<".">> THEN <<>> ELSE FirstSegment(dir),
                currentDirRel  |-> IF dir = <<".">> THEN <<>> ELSE dir,
                changed        |-> pass.working # parsed.frontmatter,
                desired        |-> getDesiredDatedBaseName(pass.matchInfo.typeSchema,
                                                           pass.working, Basename(file))]
        Target(pass, at) ==
            Then(TargetDir(pass.working, pass.matchInfo, at.hadTypeAtStart,
                           at.currentFolder, at.currentDirRel),
                 LAMBDA targetDirRel :
                     [dir |-> targetDirRel,
                      rel |-> IF targetDirRel # <<>>
                              THEN targetDirRel \o <<"/">> \o at.desired.name
                              ELSE at.desired.name])
        Move(target) ==
            Then(target.rel # relPath /\ doWrite /\ TargetOccupied(vault, target.rel),
                 LAMBDA conflict :
                     [wanted   |-> target.rel # relPath,
                      conflict |-> conflict,
                      moves    |-> target.rel # relPath /\ doWrite /\ ~conflict])
        Moved(target, move) ==
            IF move.moves
            THEN [p \in (DOMAIN vault \ {file}) \cup {target.rel} |->
                     IF p = target.rel THEN vault[file] ELSE vault[p]]
            ELSE vault
        Outcome(parsed, pass, at, target, move, finalPath) ==
            [result |->
                [file          |-> finalPath,
                 relativePath  |-> relPath,
                 schema        |-> [i \in 1..Len(pass.matchInfo.typeSchema) |->
                                       pass.matchInfo.typeSchema[i].id],
                 movedTo       |-> IF move.moves THEN target.rel ELSE <<>>,
                 changed       |-> at.changed,
                 fixes         |-> pass.fixes \o at.desired.fixes
                                   \o (IF ~move.wanted \/ move.conflict THEN <<>>
                                       ELSE <<MoveFix(IF doWrite THEN "" ELSE "would ",
                                                      at.hadTypeAtStart, at.currentFolder,
                                                      target.dir, at.currentDirRel,
                                                      target.rel)>>),
                 ambiguous     |-> IF move.conflict THEN <<Fix("Move conflict", target.rel)>>
                                   ELSE <<>>,
                 violations    |-> pass.violations,
                 targetRelPath |-> target.rel,
                 working       |-> pass.working,
                 hadTypeAtStart |-> at.hadTypeAtStart],
             vault |-> IF doWrite /\ at.changed
                       THEN [Moved(target, move) EXCEPT ![finalPath] =
                                serializeMarkdown(parsed.body, pass.working)]
                       ELSE Moved(target, move),
             ops   |-> (IF move.moves THEN <<Op("rename", file)>> ELSE <<>>)
                       \o (IF doWrite /\ at.changed THEN <<Op("write", finalPath)>>
                           ELSE <<>>)]
        Decide(parsed, pass) ==
            Then(Located(parsed, pass),
                 LAMBDA at :
                     Then(Target(pass, at),
                          LAMBDA target :
                              Then(Move(target),
                                   LAMBDA move :
                                       Outcome(parsed, pass, at, target, move,
                                               IF move.moves THEN target.rel ELSE file))))
    IN Then(parseMarkdownWithFrontmatter(vault[file]),
            LAMBDA parsed :
                Then(DocumentPass(relPath, parsed.frontmatter, schemas),
                     LAMBDA pass : Decide(parsed, pass)))

---------------------------------------------------------------------------
(* The bidirectional link pass *)

\* the target of a wikilink, the empty string for null
parseWikiLinkTarget(value) ==
    LET trimmed == Trim(value)
    IN IF ~WikiLinkShaped(trimmed) THEN <<>>
       ELSE Trim(SplitOn(SplitOn(SliceMid(trimmed, 2), "|")[1], "#")[1])

\* the normalized wikilink of a value, the empty string for null
normalizeWikiLinkValue(value) ==
    IF IsNullish(value) THEN <<>>
    ELSE LET raw == Trim(JsString(value))
         IN IF raw = <<>> THEN <<>>
            ELSE IF isWikiLink(raw)
            THEN LET target == parseWikiLinkTarget(raw)
                 IN IF target = <<>> THEN <<>> ELSE <<"[", "[">> \o target \o <<"]", "]">>
            ELSE LET noHead  == IF StartsWith(raw, <<"[", "[">>) THEN DropFirst(raw, 2) ELSE raw
                     cleaned == Trim(IF EndsWith(noHead, <<"]", "]">>) THEN DropLast(noHead, 2)
                                     ELSE noHead)
                 IN IF cleaned = <<>> THEN <<>> ELSE <<"[", "[">> \o cleaned \o <<"]", "]">>

\* .map((item) => normalizeWikiLinkValue(item)).filter(Boolean)
NormalizedLinks(items) ==
    SelectSeq([i \in 1..Len(items) |-> normalizeWikiLinkValue(items[i])],
              LAMBDA link : link # <<>>)

extractLinkTargets(fieldValue) ==
    IF IsArr(fieldValue) THEN NormalizedLinks(fieldValue.a)
    ELSE NormalizedLinks(<<fieldValue>>)

normalizeTitleKey(value) == ToLower(Trim(value))

\* normalizeTitleKey(parseWikiLinkTarget(item) || item)
LinkKey(link) ==
    normalizeTitleKey(IF parseWikiLinkTarget(link) = <<>> THEN link ELSE parseWikiLinkTarget(link))

\* prop is the target schema's property definition of the field, if any
fieldContainerKind(schema, field, currentValue) ==
    LET hasProp == schema # <<>> /\ field \in DOMAIN schema[1].properties
    IN IF hasProp /\ schema[1].properties[field].type = "array" THEN "array"
       ELSE IF hasProp /\ schema[1].properties[field].type = "string" THEN "scalar"
       ELSE IF IsArr(currentValue) THEN "array"
       ELSE IF IsStr(currentValue) /\ Trim(currentValue.s) # <<>> THEN "scalar"
       ELSE "unknown"

\* existing.has(key) taken as false
AlreadyLinkedNever(links, link) == FALSE

\* existing.has(key): the link's title key is the key of one of the links
AlreadyLinked(links, link) == LinkKey(link) \in {LinkKey(links[i]) : i \in 1..Len(links)}

\* the inverse field set to the link whatever it holds
addInverseLinkOverwrite(frontmatter, field, link, containerKind) ==
    [ok |-> TRUE, changed |-> TRUE, rule |-> "", frontmatter |-> Put(frontmatter, field, Str(link))]

\* an array-typed inverse field set to the new link alone, whatever links it
\* holds
addInverseLinkReplace(frontmatter, field, link, containerKind) ==
    LET value == Get(frontmatter, field)
        Same  == [ok |-> TRUE, changed |-> FALSE, rule |-> "", frontmatter |-> frontmatter]
        Set(v) == [ok |-> TRUE, changed |-> TRUE, rule |-> "", frontmatter |-> Put(frontmatter, field, v)]
        Fail(rule) == [ok |-> FALSE, changed |-> FALSE, rule |-> rule, frontmatter |-> frontmatter]
    IN IF containerKind = "unknown" THEN Fail("backlink/unknown-field")
       ELSE IF containerKind = "array"
       THEN IF value = Arr(<<Str(link)>>) THEN Same ELSE Set(Arr(<<Str(link)>>))
       ELSE LET existing == normalizeWikiLinkValue(value)
            IN IF existing = <<>> THEN Set(Str(link))
               ELSE IF LinkKey(existing) = LinkKey(link) THEN Same
               ELSE Fail("backlink/scalar-conflict")

\* the outcome, with the property block as the call leaves it
addInverseLink(frontmatter, field, link, containerKind) ==
    LET value == Get(frontmatter, field)
        Same  == [ok |-> TRUE, changed |-> FALSE, rule |-> "", frontmatter |-> frontmatter]
        Set(v) == [ok |-> TRUE, changed |-> TRUE, rule |-> "", frontmatter |-> Put(frontmatter, field, v)]
        Fail(rule) == [ok |-> FALSE, changed |-> FALSE, rule |-> rule, frontmatter |-> frontmatter]
        AsStrings(links) == Arr([i \in 1..Len(links) |-> Str(links[i])])
    IN IF containerKind = "unknown" THEN Fail("backlink/unknown-field")
       ELSE IF containerKind = "array"
       THEN LET current == IF IsArr(value) THEN value.a
                           ELSE AsStrings(extractLinkTargets(value)).a
                links   == NormalizedLinks(current)
            IN IF ~AlreadyLinked(links, link) THEN Set(AsStrings(Append(links, link)))
               ELSE IF ~IsArr(value) THEN Set(AsStrings(links))
               ELSE Same
       ELSE LET existing == normalizeWikiLinkValue(value)
            IN IF existing = <<>> THEN Set(Str(link))
               ELSE IF LinkKey(existing) = LinkKey(link)
               THEN IF value # Str(existing) THEN Set(Str(existing)) ELSE Same
               ELSE Fail("backlink/scalar-conflict")

\* buildTypeSchemaIndex(schemas).get(id): the first type schema of that
\* normalized id, as a sequence of zero or one schema
SchemaIndexGet(schemas, id) ==
    LET hits == {i \in 1..Len(schemas) :
                    /\ normalizeString(Str(schemas[i].discriminator)) = sType
                    /\ normalizeString(Str(schemas[i].id)) = id}
    IN IF id = <<>> \/ hits = {} THEN <<>>
       ELSE <<schemas[CHOOSE i \in hits : \A j \in hits : i <= j]>>

RECURSIVE typeMatchesOrExtends(_, _, _, _)
typeMatchesOrExtends(current, wanted, schemas, seen) ==
    IF current = <<>> \/ current \in seen THEN FALSE
    ELSE IF current = wanted THEN TRUE
    ELSE LET schema == SchemaIndexGet(schemas, current)
         IN typeMatchesOrExtends(
                IF schema = <<>> THEN <<>> ELSE normalizeString(schema[1].extends),
                wanted, schemas, seen \cup {current})

noteMatchesTargetType(note, targetType, schemas) ==
    LET wanted == normalizeString(targetType)
        directType == IF note.schema # <<>> THEN normalizeString(Str(note.schema[1].id))
                      ELSE normalizeString(Get(note.frontmatter, kType))
    IN wanted = <<>> \/ typeMatchesOrExtends(directType, wanted, schemas, {})

\* the note that the link pass builds for an entry of report.files
LinkNote(item, vault, schemas) ==
    Then(parseMarkdownWithFrontmatter(vault[item.file]),
         LAMBDA parsed :
             [file |-> item.file, body |-> parsed.body, frontmatter |-> parsed.frontmatter,
              schema |-> pickSchemasForFile(item.file, parsed.frontmatter, schemas).typeSchema,
              changed |-> FALSE])

\* path.basename(note.file, '.md').trim()
TitleOf(file) == Trim(BasenameNoExt(file))

\* titleMap.get(key): the positions of the notes of that title key
TitleMatches(notes, key) ==
    {j \in 1..Len(notes) : key # <<>> /\ normalizeTitleKey(TitleOf(notes[j].file)) = key}

\* matches.length > 1 taken as false
TooManyMatchesNever(matches) == FALSE

TooManyMatches(matches) == Cardinality(matches) > 1

AddViolation(lp, i, rule, field) ==
    [lp EXCEPT !.report[i].violations = Append(@, Violation(rule, field))]

\* one round of the loop over outboundLinks in applyBacklinkDirection; lp holds
\* the notes, report.files and linkOpsSeen, si is the position of the source
LinkStep(lp, si, rule, outboundLink, schemas) ==
    LET source      == lp.notes[si]
        targetTitle == parseWikiLinkTarget(outboundLink)
        matches     == TitleMatches(lp.notes, normalizeTitleKey(targetTitle))
        Sync(ti) ==
            LET target      == lp.notes[ti]
                sourceTitle == TitleOf(source.file)
                opKey       == <<target.file, rule.targetField, normalizeTitleKey(sourceTitle)>>
                Add(seen) ==
                    Then(addInverseLink(target.frontmatter, rule.targetField,
                                        <<"[", "[">> \o sourceTitle \o <<"]", "]">>,
                                        fieldContainerKind(target.schema, rule.targetField,
                                                           Get(target.frontmatter, rule.targetField))),
                         LAMBDA added :
                             IF ~added.ok THEN AddViolation(seen, si, added.rule, rule.targetField)
                             ELSE IF added.changed
                             THEN [seen EXCEPT
                                      !.notes[ti].frontmatter = added.frontmatter,
                                      !.notes[ti].changed = TRUE,
                                      !.report[ti].fixes =
                                          Append(@, Fix("synced inverse", rule.targetField))]
                             ELSE seen)
            IN IF Truthy(rule.targetType) /\ ~noteMatchesTargetType(target, rule.targetType, schemas)
               THEN AddViolation(lp, si, "backlink/type-mismatch", rule.sourceField)
               ELSE IF opKey \in lp.seen THEN lp
               ELSE Add([lp EXCEPT !.seen = @ \cup {opKey}])
    IN IF targetTitle = <<>> THEN lp
       ELSE IF matches = {} THEN AddViolation(lp, si, "backlink/unresolved", rule.sourceField)
       ELSE IF TooManyMatches(matches) THEN AddViolation(lp, si, "backlink/ambiguous", rule.sourceField)
       ELSE Sync(CHOOSE ti \in matches : \A tj \in matches : ti <= tj)

\* applyBacklinkDirection for one source and one rule
applyBacklinkDirection(lp, si, rule, schemas) ==
    FoldKeys(LAMBDA s, link : LinkStep(s, si, rule, link, schemas), lp,
             extractLinkTargets(Get(lp.notes[si].frontmatter, rule.sourceField)))

\* applyBidirectionalLinkPass: the notes as read, the notes after the rules,
\* report.files, the vault and the mutations made.  Every file of the report
\* can be read: no call of processFile removes another call's file.
applyBidirectionalLinkPass(vault, schemas, report, mode, write) ==
    LET notes == [i \in 1..Len(report) |-> LinkNote(report[i], vault, schemas)]
        Rules(note) == IF note.schema = <<>> THEN <<>> ELSE pairRules(note.schema[1])
        Source(lp, si) ==
            FoldKeys(LAMBDA s, rule : applyBacklinkDirection(s, si, rule, schemas),
                     lp, Rules(lp.notes[si]))
        Finish(first, lp) ==
            LET changed == {i \in 1..Len(lp.notes) : lp.notes[i].changed}
                order   == SelectSeq([i \in 1..Len(lp.notes) |-> i], LAMBDA i : i \in changed)
            IN [linkIn  |-> first,
                linkOut |-> lp.notes,
                report  |-> [i \in 1..Len(lp.report) |->
                                IF i \in changed THEN [lp.report[i] EXCEPT !.changed = TRUE]
                                ELSE lp.report[i]],
                vault   |-> IF mode = "fix" /\ write
                            THEN [p \in DOMAIN vault |->
                                     IF \E i \in changed : lp.notes[i].file = p
                                     THEN LET i == CHOOSE i \in changed : lp.notes[i].file = p
                                          IN serializeMarkdown(lp.notes[i].body,
                                                               lp.notes[i].frontmatter)
                                     ELSE vault[p]]
                            ELSE vault,
                ops     |-> IF mode = "fix" /\ write
                            THEN [k \in 1..Len(order) |-> Op("write", lp.notes[order[k]].file)]
                            ELSE <<>>]
    IN Then(notes,
            LAMBDA first :
                Then(FoldKeys(Source, [notes |-> first, report |-> report, seen |-> {}],
                              [i \in 1..Len(first) |-> i]),
                     LAMBDA lp : Finish(first, lp)))

---------------------------------------------------------------------------
(* A run of main on a vault, and after a run that writes a second run on    *)
(* the vault as the first run left it.  run.vault holds the notes under the vault root; run.art holds  *)
(* the other files under the vault root that main maintains: the schema     *)
(* notes, Schema.base and its predecessor, the configuration of the note    *)
(* mover, and the issue blocks of the schema notes.  run.ops lists the      *)
(* mutations of files under the vault root that the run has made.  The      *)
(* report file is written outside the vault and is not listed.              *)

\* the schema of plain notes; a type schema without folder is loaded with the
\* folder ''
NoteSchema ==
    Schema(<<"n", "o", "t", "e">>, <<>>, JsUndef, <<kType>>, (kType :> PlainProp("string")), NoMap)

RunSchemas == <<MeetingSchema, ThingSchema, ProjectSchema, PersonSchema, NoteSchema>>

MaxNotes == 3

DEFAULT_IGNORE_DIRS == {<<".", "g", "i", "t">>, <<".", "o", "b", "s", "i", "d", "i", "a", "n">>, <<"A", "t", "t", "a", "c", "h", "m", "e", "n", "t", "s">>, <<"A", "r", "c", "h", "i", "v", "e", "/", ".", "t", "r", "a", "s", "h">>, <<"S", "c", "h", "e", "m", "a", "s">>}

\* the notes that the walk reaches, as a set: readdir fixes no order of the
\* entries of a directory
listMarkdownFiles(vault) ==
    {p \in DOMAIN vault :
        LET parts == SplitOn(p, "/")
        IN /\ EndsWith(p, <<".", "m", "d">>)
           /\ \A k \in 1..(Len(parts) - 1) :
                 /\ parts[k] \notin DEFAULT_IGNORE_DIRS
                 /\ JoinWith(SubSeq(parts, 1, k), <<"/">>) \notin DEFAULT_IGNORE_DIRS}

\* the files that can follow in the list: the walk lists everything below a
\* directory of the root before it goes on with the root
WalkNext(report, pending) ==
    LET last == report[Len(report)].relativePath
        same == {p \in pending : Dirname(p) # <<".">> /\ FirstSegment(p) = FirstSegment(last)}
    IN IF report = <<>> \/ Dirname(last) = <<".">> \/ same = {} THEN pending ELSE same

OntologyPath == <<"O", "N", "T", "O", "L", "O", "G", "Y", ".", "m", "d">>

\* the text that syncOntologySummary writes, without the rows of its table
OntologyText ==
    <<Dash3, <<"t", "y", "p", "e", ":", " ", "n", "o", "t", "e">>, Dash3, <<"#", " ", "O", "n", "t", "o", "l", "o", "g", "y">>, <<>>,
      <<"<", "!", "-", "-", " ", "s", "c", "h", "e", "m", "a", "_", "s", "i", "g", "n", "a", "t", "u", "r", "e", " ", "-", "-", ">">>, <<>>>>

SchemaNotePath(id) == <<"S", "c", "h", "e", "m", "a", "s", "/">> \o id \o <<".", "m", "d">>

BasePath == <<"S", "c", "h", "e", "m", "a", ".", "b", "a", "s", "e">>

LegacyBasePath == <<"S", "c", "h", "e", "m", "a", " ", "O", "b", "s", "e", "r", "v", "a", "b", "i", "l", "i", "t", "y", ".", "b", "a", "s", "e">>

MoverConfigPath == <<".", "o", "b", "s", "i", "d", "i", "a", "n", "/", "p", "l", "u", "g", "i", "n", "s", "/", "a", "u", "t", "o", "-", "n", "o", "t", "e", "-", "m", "o", "v", "e", "r", "/", "d", "a", "t", "a", ".", "j", "s", "o", "n">>

\* the schema notes that syncSchemaTypeKeyConvention rewrites
SchemaNoteWrites(art) ==
    IF art.schemaNotes = "legacy"
    THEN [i \in 1..Len(RunSchemas) |-> Op("write", SchemaNotePath(RunSchemas[i].id))]
    ELSE <<>>

\* the entries of the issue block of a schema note: the reason and the note
IssueBlock(report, id) ==
    UNION {LET r == report[i]
           IN IF r.schema # <<id>> THEN {}
              ELSE IF r.ambiguous # <<>>
              THEN {[rel |-> r.relativePath, reason |-> Violation("Move conflict", <<>>)]}
              ELSE {[rel |-> r.relativePath, reason |-> r.violations[k]] :
                       k \in 1..Len(r.violations)}
           : i \in 1..Len(report)}

\* the schema notes that syncSchemaIssuePages rewrites
IssuePageWrites(art, report) ==
    LET stale == SelectSeq([i \in 1..Len(RunSchemas) |-> RunSchemas[i].id],
                           LAMBDA id : IssueBlock(report, id) # art.issues[id])
    IN [k \in 1..Len(stale) |-> Op("write", SchemaNotePath(stale[k]))]

RunModes ==
    {[mode |-> "check", write |-> FALSE], [mode |-> "fix", write |-> FALSE],
     [mode |-> "fix", write |-> TRUE]}

NoIssues == [id \in {RunSchemas[i].id : i \in 1..Len(RunSchemas)} |-> {}]

\* a vault that no run has visited, and a vault that a run has left
RunArts ==
    {[schemaNotes |-> "legacy", base |-> FALSE, legacyBase |-> TRUE, ontology |-> "absent",
      mover |-> "stale", issues |-> NoIssues],
     [schemaNotes |-> "conventional", base |-> TRUE, legacyBase |-> FALSE, ontology |-> "current",
      mover |-> "absent", issues |-> NoIssues]}

kProject == <<"p", "r", "o", "j", "e", "c", "t">>

kPerson == <<"p", "e", "r", "s", "o", "n">>

LinkAlice == Str(<<"[", "[", "A", "l", "i", "c", "e", "]", "]">>)

LinkProjectX == Str(<<"[", "[", "P", "r", "o", "j", "e", "c", "t", " ", "X", "]", "]">>)

PathProjectX == <<"P", "r", "o", "j", "e", "c", "t", "s", "/", "P", "r", "o", "j", "e", "c", "t", " ", "X", ".", "m", "d">>

PathAlice == <<"P", "e", "o", "p", "l", "e", "/", "A", "l", "i", "c", "e", ".", "m", "d">>

PathAliceLower == <<"P", "e", "o", "p", "l", "e", "/", "a", "l", "i", "c", "e", ".", "m", "d">>

PathDone == <<"P", "r", "o", "j", "e", "c", "t", "s", "/", "n", ".", "m", "d">>

PathArchived == <<"A", "r", "c", "h", "i", "v", "e", "/", "n", ".", "m", "d">>

\* the property blocks that the note of a path may have
RunPool ==
    (PathProjectX :> {(kType :> Str(kProject)) @@ (kLeads :> Arr(<<LinkAlice>>)),
                      (kType :> Str(kProject)) @@ (kLeads :> LinkAlice)})
    @@ (PathAlice :> {(kType :> Str(kPerson)),
                      (kType :> Str(kPerson)) @@ (kProjects :> Arr(<<>>)),
                      (kType :> Str(kPerson)) @@ (kProjects :> Arr(<<LinkProjectX>>))})
    @@ (PathAliceLower :> {(kType :> Str(kPerson))})
    @@ (PathDone :> {(kType :> Str(kProject)) @@ (kStatus :> Str(<<"d", "o", "n", "e">>))
                     @@ (kTags :> Str(<<"a">>)),
                     (kStatus :> Str(<<"C", "a", "n", "c", "e", "l", "l", "e", "d">>))})
    @@ (PathArchived :> {(kType :> Str(kProject)) @@ (kStatus :> Str(<<"d", "o", "n", "e">>))})

\* the vaults of at most MaxNotes notes, each note as serializeMarkdown writes it
RunVaults ==
    UNION {{[p \in paths |-> serializeMarkdown(RtBody, blocks[p])] :
               blocks \in {b \in [paths -> UNION {RunPool[p] : p \in paths}] :
                              \A p \in paths : b[p] \in RunPool[p]}}
           : paths \in {S \in SUBSET DOMAIN RunPool : S # {} /\ Cardinality(S) <= MaxNotes}}

WithOntology(vault) ==
    [p \in DOMAIN vault \cup {OntologyPath} |->
        IF p = OntologyPath THEN OntologyText ELSE vault[p]]

RunStart(m, vault, art) ==
    [stage |-> "sync schemas", mode |-> m.mode, write |-> m.write, again |-> FALSE,
     vault |-> IF art.ontology = "absent" THEN vault ELSE WithOntology(vault),
     art |-> art, pending |-> {}, report |-> <<>>, linkIn |-> <<>>, linkOut |-> <<>>,
     ops |-> <<>>, unreadable |-> {}, exit |-> 0]

RunInit ==
    /\ run \in {RunStart(m, vault, art) : m \in RunModes, vault \in RunVaults, art \in RunArts}
    /\ yaml = Idle /\ inh = Idle /\ mt = Idle /\ af = Idle

\* syncSchemaTypeKeyConvention and loadSchemas: the schema notes are rewritten
\* to the convention; the schemas loaded are RunSchemas either way
RunSyncSchemas ==
    /\ run.stage = "sync schemas"
    /\ run' = [run EXCEPT !.stage = "sync base",
                          !.ops = @ \o SchemaNoteWrites(run.art),
                          !.art.schemaNotes = "conventional"]
    /\ UNCHANGED <<yaml, inh, mt, af>>

\* syncObservabilityBase: writes Schema.base and removes its predecessor
RunSyncBase ==
    /\ run.stage = "sync base"
    /\ run' = [run EXCEPT !.stage = "sync ontology",
                          !.ops = @ \o <<Op("write", BasePath)>>
                                    \o (IF run.art.legacyBase
                                        THEN <<Op("unlink", LegacyBasePath)>> ELSE <<>>),
                          !.art.base = TRUE,
                          !.art.legacyBase = FALSE]
    /\ UNCHANGED <<yaml, inh, mt, af>>

\* syncOntologySummary: writes ONTOLOGY.md unless it carries the signature of
\* the schemas
RunSyncOntology ==
    /\ run.stage = "sync ontology"
    /\ run' = IF run.art.ontology = "current"
              THEN [run EXCEPT !.stage = "sync mover"]
              ELSE [run EXCEPT !.stage = "sync mover",
                               !.ops = @ \o <<Op("write", OntologyPath)>>,
                               !.vault = WithOntology(run.vault),
                               !.art.ontology = "current"]
    /\ UNCHANGED <<yaml, inh, mt, af>>

\* syncAutoNoteMoverConfig: rewrites the configuration when it has one that
\* differs from the rules of the schemas
RunSyncMover ==
    /\ run.stage = "sync mover"
    /\ run' = IF run.art.mover = "stale"
              THEN [run EXCEPT !.stage = "list",
                               !.ops = @ \o <<Op("write", MoverConfigPath)>>,
                               !.art.mover = "current"]
              ELSE [run EXCEPT !.stage = "list"]
    /\ UNCHANGED <<yaml, inh, mt, af>>

RunList ==
    /\ run.stage = "list"
    /\ run' = [run EXCEPT !.stage = "files", !.pending = listMarkdownFiles(run.vault)]
    /\ UNCHANGED <<yaml, inh, mt, af>>

\* one round of the loop over files in main
RunProcessFile ==
    /\ run.stage = "files"
    /\ \E file \in WalkNext(run.report, run.pending) \ run.unreadable :
          \E out \in {processFile(file, run.vault, RunSchemas, run.mode, run.write)} :
             run' = [run EXCEPT !.pending = @ \ {file},
                                !.vault = out.vault,
                                !.report = Append(@, out.result),
                                !.ops = @ \o out.ops]
    /\ UNCHANGED <<yaml, inh, mt, af>>

RunLinkPass ==
    /\ run.stage = "files"
    /\ run.pending = {}
    /\ \E out \in {applyBidirectionalLinkPass(run.vault, RunSchemas, run.report,
                                               run.mode, run.write)} :
          run' = [run EXCEPT !.stage = "issues",
                             !.vault = out.vault,
                             !.report = out.report,
                             !.linkIn = out.linkIn,
                             !.linkOut = out.linkOut,
                             !.ops = @ \o out.ops]
    /\ UNCHANGED <<yaml, inh, mt, af>>

\* recomputeReportCounters: the sum of the results' violations, and of their
\* ambiguity entries
violationCountWithAmbiguous(report) ==
    LET sum[i \in 0..Len(report)] ==
            IF i = 0 THEN 0
            ELSE sum[i - 1] + Len(report[i].violations) + Len(report[i].ambiguous)
    IN sum[Len(report)]

violationCount(report) ==
    LET sum[i \in 0..Len(report)] ==
            IF i = 0 THEN 0 ELSE sum[i - 1] + Len(report[i].violations)
    IN sum[Len(report)]

skippedAmbiguousCount(report) ==
    LET sum[i \in 0..Len(report)] ==
            IF i = 0 THEN 0 ELSE sum[i - 1] + Len(report[i].ambiguous)
    IN sum[Len(report)]

\* the exit status at the end of main
ExitStatus(mode, write, report) ==
    IF mode = "check" /\ violationCount(report) > 0 THEN 1
    ELSE IF mode = "fix" /\ write /\ violationCount(report) > 0 THEN 1
    ELSE 0

\* syncSchemaIssuePages: a schema note is rewritten when its issue block is not
\* the block of this report.  No vault of the model holds the daily note of
\* the day, so clearTodayDailySchemaIssuesBlock returns without a write.
RunSyncIssues ==
    /\ run.stage = "issues"
    /\ run' = [run EXCEPT !.stage = "done",
                          !.exit = ExitStatus(run.mode, run.write, run.report),
                          !.ops = @ \o IssuePageWrites(run.art, run.report),
                          !.art.issues = [id \in DOMAIN @ |-> IssueBlock(run.report, id)]]
    /\ UNCHANGED <<yaml, inh, mt, af>>

\* main is started once more on the vault as a run that writes left it; a run
\* that does not write leaves every note as it was
RunAgain ==
    /\ run.stage = "done"
    /\ run.write
    /\ ~run.again
    /\ \E m \in RunModes :
          run' = [run EXCEPT !.stage = "sync schemas", !.mode = m.mode, !.write = m.write,
                             !.again = TRUE, !.exit = 0,
                             !.pending = {}, !.report = <<>>, !.linkIn = <<>>,
                             !.linkOut = <<>>, !.ops = <<>>]
    /\ UNCHANGED <<yaml, inh, mt, af>>

RunNext ==
    \/ RunSyncSchemas
    \/ RunSyncBase
    \/ RunSyncOntology
    \/ RunSyncMover
    \/ RunList
    \/ RunProcessFile
    \/ RunLinkPass
    \/ RunSyncIssues
    \/ RunAgain

SpecRun == RunInit /\ [][RunNext]_vars

\* C3: a run in check mode or in fix --dry-run mode makes no mutation of a
\* file under the vault root.
CheckRunMutatesNothing == (run.stage # "idle" /\ ~run.write) => run.ops = <<>>

\* C4: in write mode, when processFile wants a note at a path other than its
\* own and that path is occupied, the note is not moved, no other note changes,
\* the result carries the ambiguity 'Move conflict' with the target path and
\* the fixes of the property block, and a changed property block is written to
\* the note's own path.
MoveConflictKeepsBoth ==
    [][(/\ run.stage = "files"
        /\ run'.stage = "files"
        /\ run.write
        /\ Len(run'.report) = Len(run.report) + 1)
       => LET r       == run'.report[Len(run'.report)]
              parsed  == parseMarkdownWithFrontmatter(run.vault[r.relativePath])
              pass    == DocumentPass(r.relativePath, parsed.frontmatter, RunSchemas)
          IN (r.targetRelPath # r.relativePath /\ r.targetRelPath \in DOMAIN run.vault)
             => /\ r.movedTo = <<>>
                /\ r.file = r.relativePath
                /\ DOMAIN run'.vault = DOMAIN run.vault
                /\ \A p \in DOMAIN run.vault \ {r.relativePath} : run'.vault[p] = run.vault[p]
                /\ r.ambiguous = <<Fix("Move conflict", r.targetRelPath)>>
                /\ \A k \in 1..Len(pass.fixes) : r.fixes[k] = pass.fixes[k]
                /\ run'.vault[r.relativePath] =
                      IF pass.working # parsed.frontmatter
                      THEN serializeMarkdown(parsed.body, pass.working)
                      ELSE run.vault[r.relativePath]]_vars

\* a write run has met a move conflict on a note whose property block it fixed
MoveConflictWitness ==
    /\ run.stage = "files"
    /\ run.write
    /\ \E i \in 1..Len(run.report) :
          /\ run.report[i].ambiguous # <<>>
          /\ run.report[i].changed
          /\ Op("write", run.report[i].relativePath) \in SeqSet(run.ops)
          /\ run.report[i].targetRelPath \in DOMAIN run.vault
          /\ run.report[i].relativePath \in DOMAIN run.vault

LinkPassDone == run.stage \in {"issues", "done"}

\* the note is 'Project X', of schema project, and its leads hold [[Alice]]
IsProjectXLedByAlice(note) ==
    /\ TitleOf(note.file) = <<"P", "r", "o", "j", "e", "c", "t", " ", "X">>
    /\ note.schema # <<>>
    /\ note.schema[1].id = kProject
    /\ LinkAlice.s \in SeqSet(extractLinkTargets(Get(note.frontmatter, kLeads)))

\* the note at position j is the one note titled 'Alice', and of schema person
IsTheOneAlice(notes, j) ==
    /\ TitleMatches(notes, <<"a", "l", "i", "c", "e">>) = {j}
    /\ notes[j].schema # <<>>
    /\ notes[j].schema[1].id = kPerson

\* C5: with 'Project X' led by [[Alice]] and one person note titled 'Alice',
\* the link pass leaves Alice's projects as ["[[Project X]]"] when they were
\* absent or empty, leaves them as they were when they held [[Project X]], and
\* changes nothing of Alice in a run that follows a write run.
BacklinkSync ==
    LinkPassDone =>
        \A i, j \in 1..Len(run.linkIn) :
            (IsProjectXLedByAlice(run.linkIn[i]) /\ IsTheOneAlice(run.linkIn, j))
            => LET before == Get(run.linkIn[j].frontmatter, kProjects)
                   after  == Get(run.linkOut[j].frontmatter, kProjects)
               IN /\ before \in {JsUndef, Arr(<<>>)} => after = Arr(<<LinkProjectX>>)
                  /\ (IsArr(before) /\ LinkProjectX \in SeqSet(before.a)) => after = before
                  /\ run.again => run.linkOut[j].frontmatter = run.linkIn[j].frontmatter

\* the link pass of a write run has given Alice, who had no projects, the
\* link to 'Project X', and has written her note
BacklinkSyncWitness ==
    /\ LinkPassDone
    /\ run.write
    /\ \E i, j \in 1..Len(run.linkIn) :
          /\ IsProjectXLedByAlice(run.linkIn[i])
          /\ IsTheOneAlice(run.linkIn, j)
          /\ ~Has(run.linkIn[j].frontmatter, kProjects)
          /\ Get(run.linkOut[j].frontmatter, kProjects) = Arr(<<LinkProjectX>>)
          /\ Op("write", run.linkIn[j].file) \in SeqSet(run.ops)

\* the notes of the title that a link of the source field names
LinkCandidates(notes, link) == TitleMatches(notes, normalizeTitleKey(parseWikiLinkTarget(link)))

\* C6: when a link in the source field of a pair rule names a title that two or
\* more scanned notes share, the source note's result has the violation
\* 'backlink/ambiguous' on that field and the link pass changes the property
\* block of none of those notes.
BacklinkAmbiguity ==
    LinkPassDone =>
        \A i \in 1..Len(run.linkIn) :
            \A field \in (IF run.linkIn[i].schema = <<>> THEN {}
                          ELSE DOMAIN run.linkIn[i].schema[1].pairRulesByField) :
                LET links == extractLinkTargets(Get(run.linkIn[i].frontmatter, field))
                IN \A k \in 1..Len(links) :
                      Cardinality(LinkCandidates(run.linkIn, links[k])) >= 2
                      => /\ Violation("backlink/ambiguous", field)
                               \in SeqSet(run.report[i].violations)
                         /\ \A j \in LinkCandidates(run.linkIn, links[k]) :
                               run.linkOut[j].frontmatter = run.linkIn[j].frontmatter

\* a link pass has met [[Alice]] in the leads of 'Project X' with two notes of
\* that title in the vault
BacklinkAmbiguityWitness ==
    /\ LinkPassDone
    /\ \E i \in 1..Len(run.linkIn) :
          /\ IsProjectXLedByAlice(run.linkIn[i])
          /\ Cardinality(LinkCandidates(run.linkIn, LinkAlice.s)) >= 2
          /\ Violation("backlink/ambiguous", kLeads) \in SeqSet(run.report[i].violations)

\* the fields of the document as it was whose value is a string that is no
\* entry of the field's enum but equals one when both are lower-cased
AfEnumCaseFields ==
    IF af.schema = <<>> THEN {}
    ELSE {key \in DOMAIN af.schema[1].properties :
             LET prop == af.schema[1].properties[key]
                 v    == Get(af.original, key)
             IN /\ prop.type = "string"
                /\ prop.hasEnum
                /\ IsStr(v)
                /\ \A i \in 1..Len(prop.enum) : prop.enum[i] # v
                /\ \E i \in 1..Len(prop.enum) :
                      IsStr(prop.enum[i]) /\ ToLower(prop.enum[i].s) = ToLower(v.s)}

\* C11: a string field whose value equals an entry of its enum but for the
\* case holds that entry after the autofix pass, and the validation that
\* follows the autofix in a check reports no enum violation for the field.
EnumNormalization ==
    \A key \in AfEnumCaseFields :
        LET prop == af.schema[1].properties[key]
        IN /\ ((af.stage = "fixed" /\ af.passes = 1) \/ af.stage = "checked")
              => /\ Has(af.working, key)
                 /\ \E i \in 1..Len(prop.enum) :
                       /\ af.working[key] = prop.enum[i]
                       /\ ToLower(prop.enum[i].s) = ToLower(af.original[key].s)
           /\ af.stage = "checked"
              => Violation("enum", key) \notin SeqSet(af.violations)

\* a check has met status: Done under the enum [open, done] and left done
EnumNormalizationWitness ==
    /\ af.stage = "checked"
    /\ kStatus \in AfEnumCaseFields
    /\ af.original[kStatus] = Str(<<"D", "o", "n", "e">>)
    /\ af.working[kStatus] = Str(<<"d", "o", "n", "e">>)
    /\ Fix("normalized enum case", kStatus) \in SeqSet(af.fixes)

\* C12: when the status of a note after the autofix is done, superseded or
\* cancelled (trimmed, lower-cased), processFile wants the note in 'Archive':
\* a write run moves it there unless the path is occupied or the note is
\* there already, and a run that does not write records the move.
ArchiveOverride ==
    \A i \in 1..Len(run.report) :
        LET r == run.report[i]
        IN normalizeString(Get(r.working, kStatus)) \in {<<"d", "o", "n", "e">>, <<"s", "u", "p", "e", "r", "s", "e", "d", "e", "d">>, <<"c", "a", "n", "c", "e", "l", "l", "e", "d">>}
           => /\ r.targetRelPath = <<"A", "r", "c", "h", "i", "v", "e", "/">> \o Basename(r.relativePath)
              /\ run.write
                 => \/ r.targetRelPath = r.relativePath /\ r.movedTo = <<>>
                    \/ r.ambiguous = <<Fix("Move conflict", r.targetRelPath)>> /\ r.movedTo = <<>>
                    \/ r.movedTo = r.targetRelPath /\ r.file = r.targetRelPath
              /\ (~run.write /\ r.targetRelPath # r.relativePath)
                 => \E k \in 1..Len(r.fixes) :
                       /\ r.fixes[k].msg = "would "
                       /\ r.fixes[k].arg[2] = r.targetRelPath

\* a write run has moved a note without type and with status Cancelled from
\* Projects to Archive
ArchiveOverrideWitness ==
    /\ run.write
    /\ \E i \in 1..Len(run.report) :
          /\ run.report[i].relativePath = PathDone
          /\ run.report[i].movedTo = PathArchived
          /\ ~run.report[i].hadTypeAtStart
          /\ Get(run.report[i].working, kStatus) = Str(<<"C", "a", "n", "c", "e", "l", "l", "e", "d">>)
          /\ PathArchived \in DOMAIN run.vault
          /\ PathDone \notin DOMAIN run.vault

---------------------------------------------------------------------------
(* Runs of main on vaults whose projects name an owner: the inverse field   *)
(* person.owns holds a single link.                                         *)

PathProjectY == <<"P", "r", "o", "j", "e", "c", "t", "s", "/", "Y", ".", "m", "d">>

LinkProjectY == Str(<<"[", "[", "Y", "]", "]">>)

\* the property blocks that the note of a path may have
OwnerPool ==
    (PathProjectX :> {(kType :> Str(kProject)) @@ (kOwner :> LinkAlice)})
    @@ (PathProjectY :> {(kType :> Str(kProject)) @@ (kOwner :> LinkAlice)})
    @@ (PathAlice :> {(kType :> Str(kPerson)),
                      (kType :> Str(kPerson)) @@ (kOwns :> Str(<<>>)),
                      (kType :> Str(kPerson)) @@ (kOwns :> LinkProjectX),
                      (kType :> Str(kPerson)) @@ (kOwns :> Str(<<"[", "[", "p", "r", "o", "j", "e", "c", "t", " ", "x", "|", "P", "]", "]">>)),
                      (kType :> Str(kPerson)) @@ (kOwns :> Str(<<"[", "[", "O", "t", "h", "e", "r", "]", "]">>))})

OwnerVaults ==
    UNION {{[p \in paths |-> serializeMarkdown(RtBody, blocks[p])] :
               blocks \in {b \in [paths -> UNION {OwnerPool[p] : p \in paths}] :
                              \A p \in paths : b[p] \in OwnerPool[p]}}
           : paths \in {S \in SUBSET DOMAIN OwnerPool : S # {} /\ Cardinality(S) <= MaxNotes}}

OwnerInit ==
    /\ run \in {RunStart(m, vault, art) : m \in RunModes, vault \in OwnerVaults, art \in RunArts}
    /\ yaml = Idle /\ inh = Idle /\ mt = Idle /\ af = Idle

SpecOwner == OwnerInit /\ [][RunNext]_vars

\* the positions of the projects that name [[Alice]] as owner, in the order of
\* the list of files
OwnerSources(notes) ==
    SelectSeq([i \in 1..Len(notes) |-> i],
              LAMBDA i : /\ notes[i].schema # <<>>
                         /\ notes[i].schema[1].id = kProject
                         /\ LinkAlice.s \in SeqSet(extractLinkTargets(
                                                      Get(notes[i].frontmatter, kOwner))))

\* the title that a value of the inverse field names, lower-cased; the empty
\* string when it names none
OwnedTitle(value) ==
    LET link == normalizeWikiLinkValue(value)
    IN IF link = <<>> THEN <<>> ELSE normalizeTitleKey(parseWikiLinkTarget(link))

\* C13: for the single inverse field person.owns of the one person titled
\* 'Alice': an empty field is set to the link of the first project that names
\* her as owner; a field that names a title keeps naming that title, and is
\* left as it was when no such project has that title; and a project gets the
\* violation 'backlink/scalar-conflict' exactly when its title is not the one
\* the field names after the pass, whatever the order of the projects.
ScalarInverse ==
    LinkPassDone =>
        \A j \in 1..Len(run.linkIn) :
            IsTheOneAlice(run.linkIn, j)
            => LET sources == OwnerSources(run.linkIn)
                   before  == Get(run.linkIn[j].frontmatter, kOwns)
                   after   == Get(run.linkOut[j].frontmatter, kOwns)
                   SourceKey(i) == normalizeTitleKey(TitleOf(run.linkIn[i].file))
               IN /\ sources = <<>> => after = before
                  /\ (sources # <<>> /\ OwnedTitle(before) = <<>>)
                     => after = Str(<<"[", "[">> \o TitleOf(run.linkIn[sources[1]].file) \o <<"]", "]">>)
                  /\ OwnedTitle(before) # <<>>
                     => /\ OwnedTitle(after) = OwnedTitle(before)
                        /\ (\A k \in 1..Len(sources) : SourceKey(sources[k]) # OwnedTitle(before))
                           => after = before
                  /\ \A k \in 1..Len(sources) :
                        (SourceKey(sources[k]) # OwnedTitle(after))
                        <=> Violation("backlink/scalar-conflict", kOwns)
                               \in SeqSet(run.report[sources[k]].violations)

\* two projects name Alice, whose field named another title: the field is as
\* it was and both projects have the violation
ScalarInverseWitness ==
    /\ LinkPassDone
    /\ run.write
    /\ \E j \in 1..Len(run.linkIn) :
          /\ IsTheOneAlice(run.linkIn, j)
          /\ Len(OwnerSources(run.linkIn)) = 2
          /\ Get(run.linkIn[j].frontmatter, kOwns) = Str(<<"[", "[", "O", "t", "h", "e", "r", "]", "]">>)
          /\ Get(run.linkOut[j].frontmatter, kOwns) = Str(<<"[", "[", "O", "t", "h", "e", "r", "]", "]">>)
          /\ \A k \in 1..2 :
                Violation("backlink/scalar-conflict", kOwns)
                   \in SeqSet(run.report[OwnerSources(run.linkIn)[k]].violations)

\* C14: after the autofix pass a document that had no type has the type that
\* the folder table gives for its top-level folder, and the type note when it
\* lies directly at the vault root.
TypeInference ==
    (af.stage = "fixed" /\ af.passes = 1 /\ DOMAIN af.original \cap {kType, kSubtype, kKind} = {})
    => /\ (Dirname(af.relPath) # <<".">> /\ FirstSegment(af.relPath) \in DOMAIN FOLDER_TYPE_MAP)
          => Get(af.working, kType) = Str(FOLDER_TYPE_MAP[FirstSegment(af.relPath)])
       /\ Dirname(af.relPath) = <<".">>
          => Get(af.working, kType) = Str(<<"n", "o", "t", "e">>)

---------------------------------------------------------------------------
(* Runs in which a listed note cannot be read.  processFile reads the note  *)
(* outside any try block and main awaits processFile outside any try block, *)
(* so the rejection reaches main().catch, which exits with status 1 before  *)
(* the link pass and before the report is written.                          *)

IoInit ==
    /\ \E m \in RunModes, vault \in OwnerVaults, art \in RunArts :
          \E u \in {S \in SUBSET DOMAIN vault : Cardinality(S) <= 1} :
              run = [RunStart(m, vault, art) EXCEPT !.unreadable = u]
    /\ yaml = Idle /\ inh = Idle /\ mt = Idle /\ af = Idle

\* a round of the loop over files in main whose readFile rejects
RunReadFails ==
    /\ run.stage = "files"
    /\ \E file \in WalkNext(run.report, run.pending) \cap run.unreadable :
          run' = [run EXCEPT !.stage = "aborted", !.exit = 1]
    /\ UNCHANGED <<yaml, inh, mt, af>>

IoNext == RunNext \/ RunReadFails

SpecIo == IoInit /\ [][IoNext]_vars

\* C15: a note that cannot be read does not end the run: the other notes are
\* processed and the report is produced.
ReadErrorNotFatal == run.stage # "aborted"

---------------------------------------------------------------------------
\* the run has written its report and is a check or a fix that writes
RunSignals == run.stage = "done" /\ (run.mode = "check" \/ (run.mode = "fix" /\ run.write))

---------------------------------------------------------------------------
(* Runs on vaults with notes in the folders that the documentation lists as *)
(* excluded from the scan.  Schemas/_s.md is a note below Schemas that       *)
(* loadSchemas skips for its leading underscore, so it is no schema note.    *)

PathTemplate == <<"T", "e", "m", "p", "l", "a", "t", "e", "s", "/", "t", ".", "m", "d">>

PathAttachment == <<"A", "t", "t", "a", "c", "h", "m", "e", "n", "t", "s", "/", "a", ".", "m", "d">>

PathConfigNote == <<".", "o", "b", "s", "i", "d", "i", "a", "n", "/", "o", ".", "m", "d">>

PathSchemasNote == <<"S", "c", "h", "e", "m", "a", "s", "/", "_", "s", ".", "m", "d">>

kMeeting == <<"m", "e", "e", "t", "i", "n", "g">>

ScanPool ==
    (PathTemplate :> {(kType :> Str(kMeeting)), (kTitle :> Str(<<"x">>))})
    @@ (PathAttachment :> {(kType :> Str(kMeeting))})
    @@ (PathConfigNote :> {(kType :> Str(kMeeting))})
    @@ (PathSchemasNote :> {(kType :> Str(kMeeting))})
    @@ (PathProjectX :> {(kType :> Str(kProject))})

ScanVaults ==
    UNION {{[p \in paths |-> serializeMarkdown(RtBody, blocks[p])] :
               blocks \in {b \in [paths -> UNION {ScanPool[p] : p \in paths}] :
                              \A p \in paths : b[p] \in ScanPool[p]}}
           : paths \in {S \in SUBSET DOMAIN ScanPool : S # {} /\ Cardinality(S) <= MaxNotes}}

ScanInit ==
    /\ run \in {RunStart(m, vault, art) : m \in RunModes, vault \in ScanVaults, art \in RunArts}
    /\ yaml = Idle /\ inh = Idle /\ mt = Idle /\ af = Idle

SpecScan == ScanInit /\ [][RunNext]_vars

\* the folders that the documentation lists as excluded from the scan
ExcludedFolders == {<<"A", "t", "t", "a", "c", "h", "m", "e", "n", "t", "s">>, <<"S", "c", "h", "e", "m", "a", "s">>, <<"T", "e", "m", "p", "l", "a", "t", "e", "s">>, <<".", "o", "b", "s", "i", "d", "i", "a", "n">>}

\* the notes of the vault below an excluded folder; the schema notes and the
\* configuration that the run generates are no notes of the vault
ExcludedNotes == {PathTemplate, PathAttachment, PathConfigNote, PathSchemasNote}

\* C17: no note below Attachments/, Schemas/, Templates/ or .obsidian/ is in the
\* file list of the report, and the run writes and moves no such note.
ScanExclusions ==
    /\ \A i \in 1..Len(run.report) :
          FirstSegment(run.report[i].relativePath) \notin ExcludedFolders
    /\ \A k \in 1..Len(run.ops) : run.ops[k].path \notin ExcludedNotes

---------------------------------------------------------------------------
\* C18: in every result of the per-document pass the property block of the
\* document holds a list schema_notes with one entry for each ambiguity of the
\* result when there is one, move conflicts included, and has no schema_notes
\* when there is none.
AmbiguityRecording ==
    \A i \in 1..Len(run.report) :
        LET r == run.report[i]
        IN IF r.ambiguous # <<>>
           THEN /\ Has(r.working, kSchemaNotes)
                /\ IsArr(r.working[kSchemaNotes])
                /\ Len(r.working[kSchemaNotes].a) = Len(r.ambiguous)
           ELSE ~Has(r.working, kSchemaNotes)

---------------------------------------------------------------------------
\* the paths of the 'would move' and 'would rename' fixes of a result
WouldMoveTo(r) == {r.fixes[k].arg[2] : k \in {j \in 1..Len(r.fixes) : r.fixes[j].msg = "would "}}

\* the result of processFile for the same note and vault in a fix that writes
WriteDecision(r) == processFile(r.relativePath, run.vault, RunSchemas, "fix", TRUE).result

\* C19: a run that does not write records for each note the decision that a
\* fix that writes takes from the same vault: a 'would move' fix with path P
\* exactly when the fix moves the note to P, and a move conflict exactly when
\* the fix records one.
DryRunDecision ==
    (~run.write /\ run.stage \in {"files", "issues", "done"}) =>
        \A i \in 1..Len(run.report) :
            LET r == run.report[i]
                w == WriteDecision(r)
            IN /\ WouldMoveTo(r) = (IF w.movedTo # <<>> THEN {w.movedTo} ELSE {})
               /\ r.ambiguous = w.ambiguous

---------------------------------------------------------------------------
(* A schema note in property-block form that declares one field besides its *)
(* type, loaded by parseNativeMarkdownSchema, and the autofix of a document  *)
(* of that schema.                                                           *)

inferPrimitiveType(value) ==
    IF IsArr(value) THEN "array"
    ELSE IF value.k = "bool" THEN "boolean"
    ELSE IF value.k = "num" THEN "number"
    ELSE "string"

WithDefault(prop, value) == [prop EXCEPT !.hasDefault = TRUE, !.default = value]

\* the entries of an enum written as one string with commas
EnumParts(trimmed) ==
    LET parts == SplitOn(trimmed, ",")
        kept  == SelectSeq([i \in 1..Len(parts) |-> Trim(parts[i])], LAMBDA x : x # <<>>)
    IN [i \in 1..Len(kept) |-> parseScalar(kept[i])]

propertyFromSchemaValue(rawValue, allowImplicitDefault) ==
    IF IsArr(rawValue)
    THEN IF Len(rawValue.a) = 0
         THEN IF allowImplicitDefault THEN WithDefault(PlainProp("array"), Arr(<<>>))
              ELSE PlainProp("array")
         ELSE IF Len(rawValue.a) = 1
         THEN IF allowImplicitDefault
              THEN WithDefault(PlainProp("array"), Arr(<<rawValue.a[1]>>))
              ELSE PlainProp("array")
         ELSE PropDef("array", TRUE, rawValue.a, FALSE, JsNull, "")
    ELSE IF IsStr(rawValue)
    THEN IF Contains(Trim(rawValue.s), ",")
         THEN PropDef("string", TRUE, EnumParts(Trim(rawValue.s)), FALSE, JsNull, "")
         ELSE LET parsed == parseScalar(Trim(rawValue.s))
              IN IF allowImplicitDefault
                 THEN WithDefault(PlainProp(inferPrimitiveType(parsed)), parsed)
                 ELSE PlainProp(inferPrimitiveType(parsed))
    ELSE IF rawValue.k \in {"bool", "num"}
    THEN IF allowImplicitDefault
         THEN WithDefault(PlainProp(inferPrimitiveType(rawValue)), rawValue)
         ELSE PlainProp(inferPrimitiveType(rawValue))
    ELSE PlainProp("string")

\* the call with allowImplicitDefault: true, which the program never makes
DeclaredPropertyImplicit(rawValue) == propertyFromSchemaValue(rawValue, TRUE)

\* the property of a key that the loop over the block declares
DeclaredProperty(rawValue) == propertyFromSchemaValue(rawValue, FALSE)

\* the schema of the note `type: <id>`, `folder: <folder>`, `<key>: <rawValue>`
\* (`<key>*` when required) and, when explicit is not empty,
\* `default.<key>: <explicit[1]>`
parseNativeMarkdownSchema(id, folder, key, required, rawValue, explicit) ==
    LET declared == DeclaredProperty(rawValue)
        prop     == IF explicit # <<>> /\ ~IsNull(explicit[1])
                    THEN WithDefault(declared, cloneValue(explicit[1]))
                    ELSE declared
    IN Schema(id, folder, JsUndef,
              IF required THEN <<key, kType>> ELSE <<kType>>,
              (kType :> DeclaredProperty(Str(id))) @@ (key :> prop),
              NoMap)

kThing == <<"t", "h", "i", "n", "g">>

FieldDocs == {(kType :> Str(kThing)), (kType :> Str(kThing)) @@ (kTitle :> Str(<<"z">>))}

FieldInit ==
    /\ af \in {[stage |-> "declared", rawValue |-> v, required |-> r, explicit |-> e,
                original |-> w, schema |-> <<>>, working |-> w, fixes |-> <<>>] :
                  v \in RtValues, r \in BOOLEAN, e \in {<<>>, <<Str(<<"d">>)>>, <<JsNull>>},
                  w \in FieldDocs}
    /\ yaml = Idle /\ inh = Idle /\ mt = Idle /\ run = Idle

\* loadSchemas reads the schema note
FieldLoad ==
    /\ af.stage = "declared"
    /\ af' = [af EXCEPT !.stage = "loaded",
                        !.schema = <<parseNativeMarkdownSchema(kThing, <<"T", "h", "i", "n", "g", "s">>, kTitle,
                                                               af.required, af.rawValue,
                                                               af.explicit)>>]
    /\ UNCHANGED <<yaml, inh, mt, run>>

\* applySchemaAutofix on a document of the schema
FieldFix ==
    /\ af.stage = "loaded"
    /\ \E fixed \in {applySchemaAutofix(af.schema[1], [w |-> af.working, fixes |-> <<>>])} :
          af' = [af EXCEPT !.stage = "fixed", !.working = fixed.w, !.fixes = fixed.fixes]
    /\ UNCHANGED <<yaml, inh, mt, run>>

FieldNext == FieldLoad \/ FieldFix

SpecField == FieldInit /\ [][FieldNext]_vars

\* the field is declared with one scalar: a string without comma that is not
\* blank, a number or a boolean
SingleScalar ==
    \/ af.rawValue.k \in {"bool", "num"}
    \/ IsStr(af.rawValue) /\ Trim(af.rawValue.s) # <<>> /\ ~Contains(af.rawValue.s, ",")

\* the scalar that the declaration holds
DeclaredScalar ==
    IF IsStr(af.rawValue) THEN parseScalar(Trim(af.rawValue.s)) ELSE af.rawValue

\* the document lacked the required field and the autofix has run
FilledRequired == af.stage = "fixed" /\ af.required /\ ~Has(af.original, kTitle)

\* C20 as stated: a field declared with one scalar v, in a note without
\* default.<key>, gets a property of the type of v whose default is v, and a
\* document of the schema that lacks the field, when the field is required,
\* gets it with the value v.
ImplicitDefault ==
    (af.stage \in {"loaded", "fixed"} /\ SingleScalar /\ af.explicit = <<>>) =>
        LET prop == af.schema[1].properties[kTitle]
        IN /\ prop.type = inferPrimitiveType(DeclaredScalar)
           /\ prop.hasDefault
           /\ prop.default = DeclaredScalar
           /\ FilledRequired => af.working[kTitle] = DeclaredScalar

\* C20: a field declared with one scalar v gets a property of the type of v
\* that has a default exactly when the note has a default.<key> that is not
\* null, and then that default; a document of the schema that lacks the
\* field, when the field is required, gets it from that default, and without
\* one it gets the blank of the type (null, or the empty list), whatever v is.
DeclaredDefault ==
    (af.stage \in {"loaded", "fixed"} /\ SingleScalar) =>
        LET prop == af.schema[1].properties[kTitle]
            explicit == af.explicit # <<>> /\ ~IsNull(af.explicit[1])
        IN /\ prop.type = inferPrimitiveType(DeclaredScalar)
           /\ prop.hasDefault <=> explicit
           /\ explicit => prop.default = af.explicit[1]
           /\ FilledRequired =>
                 IF explicit
                 THEN /\ af.fixes[1] = Fix("added required from schema default", kTitle)
                      /\ prop.type = "string" => af.working[kTitle] = af.explicit[1]
                 ELSE /\ af.fixes = <<Fix("added required (blank)", kTitle)>>
                      /\ af.working[kTitle] = blankValueForProperty(af.schema[1].properties, kTitle)

\* `title*: a` without default.title: the document gets title: null
DeclaredDefaultWitness ==
    /\ FilledRequired
    /\ af.rawValue = Str(<<"a">>)
    /\ af.explicit = <<>>
    /\ ~af.schema[1].properties[kTitle].hasDefault
    /\ af.working[kTitle] = JsNull

---------------------------------------------------------------------------
(* The file name that processFile wants for a note with a date *)

DatedValues ==
    {JsUndef, JsNull, Str(<<"2", "0", "2", "4", "-", "0", "1", "-", "0", "1">>), Str(<<" ", "2", "0", "2", "4", "-", "0", "1", "-", "0", "1", "T", "1", "0", ":", "0", "0">>), Str(<<"2", "0", "2", "4", "-", "0", "1", "-", "0">>),
     Str(<<"2", "0", "2", "4", "-", "0", "1", "-", "0", "1", "x">>), Str(<<"x">>), Num(<<"2", "0", "2", "4">>)}

DatedNames ==
    {<<"n", ".", "m", "d">>, <<"2", "0", "2", "4", "-", "0", "1", "-", "0", "1", " ", "n", ".", "m", "d">>, <<"2", "0", "2", "3", "-", "1", "2", "-", "3", "1", " ", "n", ".", "m", "d">>, <<"2", "0", "2", "4", "-", "0", "1", "-", "0", "1", ".", "m", "d">>,
     <<"2", "0", "2", "4", "-", "0", "1", "-", "0", "1", "n", ".", "m", "d">>, <<"2", "0", "2", "3", "-", "1", "2", "-", "3", "1", "-", "n", ".", "m", "d">>, <<"2", "0", "2", "4", "-", "1", "-", "1", " ", "n", ".", "m", "d">>}

DatedInit ==
    /\ mt \in {[stage |-> "note", schema |-> s, date |-> d, currentBaseName |-> n,
                name |-> n, fixes |-> <<>>] :
                  s \in {<<>>, <<MeetingSchema>>, <<ThingSchema>>},
                  d \in DatedValues, n \in DatedNames}
    /\ yaml = Idle /\ inh = Idle /\ af = Idle /\ run = Idle

\* processFile asks for the name of the note
DatedName ==
    /\ mt.stage = "note"
    /\ \E out \in {getDesiredDatedBaseName(mt.schema,
                                           IF mt.date = JsUndef THEN NoMap
                                           ELSE (kDate :> mt.date),
                                           mt.currentBaseName)} :
          mt' = [mt EXCEPT !.stage = "named", !.name = out.name, !.fixes = out.fixes]
    /\ UNCHANGED <<yaml, inh, af, run>>

SpecDated == DatedInit /\ [][DatedName]_vars

\* the schema prepends dates and the date of the note starts with a date token
DatedByToken ==
    /\ mt.stage = "named"
    /\ mt.schema # <<>>
    /\ mt.schema[1].prependDateToTitle = JsTrue
    /\ normalizeDateToken(mt.date) # <<>>

\* C21: with a schema that prepends dates and a date that starts with the
\* token D, the wanted name is 'D <old name>' unless the old name starts with
\* the token D; an old name that starts with another date gets D in front too.
DatePrefixPolicy ==
    DatedByToken =>
        LET D    == normalizeDateToken(mt.date)
            stem == BasenameNoExt(mt.currentBaseName)
        IN mt.name = IF HasDatePrefix(stem) /\ SubSeq(stem, 1, 10) = D
                     THEN mt.currentBaseName
                     ELSE D \o <<" ">> \o mt.currentBaseName

---------------------------------------------------------------------------
(* Runs on vaults whose notes lie in and out of the folder of their schema *)

PathMisfiled == <<"P", "e", "o", "p", "l", "e", "/", "p", ".", "m", "d">>

PathNested == <<"P", "r", "o", "j", "e", "c", "t", "s", "/", "s", "u", "b", "/", "q", ".", "m", "d">>

PathTemplateProject == <<"T", "e", "m", "p", "l", "a", "t", "e", "s", "/", "p", ".", "m", "d">>

PathUntyped == <<"P", "r", "o", "j", "e", "c", "t", "s", "/", "u", ".", "m", "d">>

PathRoot == <<"r", ".", "m", "d">>

MovePool ==
    (PathMisfiled :> {(kType :> Str(kProject)), (kType :> Str(kPerson))})
    @@ (PathNested :> {(kType :> Str(kProject))})
    @@ (PathTemplateProject :> {(kType :> Str(kProject))})
    @@ (PathUntyped :> {(kTitle :> Str(<<"x">>))})
    @@ (PathRoot :> {(kType :> Str(kProject)), (kTitle :> Str(<<"x">>))})

MoveVaults ==
    UNION {{[p \in paths |-> serializeMarkdown(RtBody, blocks[p])] :
               blocks \in {b \in [paths -> UNION {MovePool[p] : p \in paths}] :
                              \A p \in paths : b[p] \in MovePool[p]}}
           : paths \in {S \in SUBSET DOMAIN MovePool : S # {} /\ Cardinality(S) <= MaxNotes}}

MoveInit ==
    /\ run \in {RunStart(m, vault, art) :
                   m \in RunModes, vault \in MoveVaults,
                   art \in {a \in RunArts : a.ontology = "current"}}
    /\ yaml = Idle /\ inh = Idle /\ mt = Idle /\ af = Idle

SpecMove == MoveInit /\ [][RunNext]_vars

\* the folder of the schema that a result names, <<>> when it names none
ResultSchemaFolder(r) ==
    IF r.schema = <<>> THEN <<>>
    ELSE << SchemaIndexGet(RunSchemas, normalizeString(Str(r.schema[1])))[1].folder.s >>

\* C22: for a note whose status is not terminal the wanted folder is the vault
\* root when the note had no type at the start and lies outside the root;
\* else the folder of the matched schema when that differs from the top-level
\* folder of the note and the top-level folder is not Templates; else the
\* folder of the note.
RelocationOrder ==
    \A i \in 1..Len(run.report) :
        LET r      == run.report[i]
            dir    == Dirname(r.relativePath)
            cur    == IF dir = <<".">> THEN <<>> ELSE dir
            top    == IF dir = <<".">> THEN <<>> ELSE FirstSegment(dir)
            folder == ResultSchemaFolder(r)
            wanted == IF ~r.hadTypeAtStart /\ top # <<>> THEN <<>>
                      ELSE IF folder # <<>> /\ folder[1] # top /\ top # <<"T", "e", "m", "p", "l", "a", "t", "e", "s">>
                      THEN folder[1]
                      ELSE cur
            tdir   == Dirname(r.targetRelPath)
        IN normalizeString(Get(r.working, kStatus)) \notin TERMINAL_STATUSES
           => (IF tdir = <<".">> THEN <<>> ELSE tdir) = wanted

\* a write run has moved a project from People to Projects, has left the
\* project in Templates where it was and has moved the note without type from
\* Projects to the root
RelocationOrderWitness ==
    /\ run.write
    /\ run.stage = "done"
    /\ \E i \in 1..Len(run.report) :
          /\ run.report[i].relativePath = PathMisfiled
          /\ run.report[i].movedTo = <<"P", "r", "o", "j", "e", "c", "t", "s", "/", "p", ".", "m", "d">>
    /\ \E i \in 1..Len(run.report) :
          /\ run.report[i].relativePath = PathTemplateProject
          /\ run.report[i].movedTo = <<>>
    /\ \E i \in 1..Len(run.report) :
          /\ run.report[i].relativePath = PathUntyped
          /\ run.report[i].movedTo = <<"u", ".", "m", "d">>

---------------------------------------------------------------------------
(* Fix runs that write, one after the other, on a vault with one note whose *)
(* schema requires a text field and a list field and gives both a default.  *)

BlankSchema ==
    Schema(kThing, <<"T", "h", "i", "n", "g", "s">>, JsUndef, <<kTitle, kLabels, kType>>,
           (kType :> PlainProp("string"))
           @@ (kTitle :> WithDefault(PlainProp("string"), Str(<<"d">>)))
           @@ (kLabels :> WithDefault(PlainProp("array"), Arr(<<Str(<<"x">>)>>))),
           NoMap)

PathThing == <<"T", "h", "i", "n", "g", "s", "/", "n", ".", "m", "d">>

MaxRuns == 3

\* the values of a field in the note; <<>> stands for the field being absent
BlankChoices ==
    {<<>>, <<Str(<<>>)>>, <<Str(<<" ">>)>>, <<Str(<<" ", " ">>)>>, <<Str(<<"a">>)>>,
     <<Arr(<<Str(<<"a">>)>>)>>}

BlankBlock(title, labels) ==
    (kType :> Str(kThing))
    @@ (IF title = <<>> THEN NoMap ELSE (kTitle :> title[1]))
    @@ (IF labels = <<>> THEN NoMap ELSE (kLabels :> labels[1]))

\* the property block that a run reads from the note
BlankRead(vault) == parseMarkdownWithFrontmatter(vault[PathThing]).frontmatter

BlankInit ==
    /\ \E title \in BlankChoices, labels \in BlankChoices :
          \E vault \in {(PathThing :> serializeMarkdown(RtBody, BlankBlock(title, labels)))} :
              af = [stage |-> "vault", vault |-> vault, original |-> BlankRead(vault),
                    runs |-> 0, fixes |-> <<>>]
    /\ yaml = Idle /\ inh = Idle /\ mt = Idle /\ run = Idle

\* a fix run that writes: processFile on the note
BlankRun ==
    /\ af.stage = "vault"
    /\ af.runs < MaxRuns
    /\ \E out \in {processFile(PathThing, af.vault, <<BlankSchema>>, "fix", TRUE)} :
          af' = [af EXCEPT !.vault = out.vault, !.runs = @ + 1, !.fixes = out.result.fixes]
    /\ UNCHANGED <<yaml, inh, mt, run>>

SpecBlank == BlankInit /\ [][BlankRun]_vars

\* the required fields that held a blank text when the first run read the note
BlankAtStart ==
    {key \in {kTitle, kLabels} :
        /\ Has(af.original, key)
        /\ IsStr(af.original[key])
        /\ Trim(af.original[key].s) = <<>>}

\* C23: a required field that held a blank text is null after the first fix
\* run that writes and after every later one; it never gets the default.
IntentionalBlankKept ==
    af.runs >= 1 => \A key \in BlankAtStart : Get(BlankRead(af.vault), key) = JsNull

---------------------------------------------------------------------------
(* Runs of main on vaults in which several projects are led by the same     *)
(* person: the inverse field person.projects is a list.                     *)

PathProjectZ == <<"P", "r", "o", "j", "e", "c", "t", "s", "/", "Z", ".", "m", "d">>

LinkOther == Str(<<"[", "[", "O", "t", "h", "e", "r", "]", "]">>)

\* the property blocks that the note of a path may have
LeadsPool ==
    (PathProjectX :> {(kType :> Str(kProject)) @@ (kLeads :> Arr(<<LinkAlice>>)),
                      (kType :> Str(kProject)) @@ (kLeads :> LinkAlice)})
    @@ (PathProjectY :> {(kType :> Str(kProject)) @@ (kLeads :> Arr(<<LinkAlice>>))})
    @@ (PathProjectZ :> {(kType :> Str(kProject)) @@ (kLeads :> Arr(<<LinkAlice>>))})
    @@ (PathAlice :> {(kType :> Str(kPerson)),
                      (kType :> Str(kPerson)) @@ (kProjects :> Arr(<<>>)),
                      (kType :> Str(kPerson)) @@ (kProjects :> Arr(<<LinkOther>>)),
                      (kType :> Str(kPerson)) @@ (kProjects :> Arr(<<LinkOther, LinkProjectY>>)),
                      (kType :> Str(kPerson)) @@ (kProjects :> Arr(<<Str(<<"[", "[", "p", "r", "o", "j", "e", "c", "t", " ", "x", "|", "P", "]", "]">>)>>))})

LeadsVaults ==
    UNION {{[p \in paths |-> serializeMarkdown(RtBody, blocks[p])] :
               blocks \in {b \in [paths -> UNION {LeadsPool[p] : p \in paths}] :
                              \A p \in paths : b[p] \in LeadsPool[p]}}
           : paths \in {S \in SUBSET DOMAIN LeadsPool : S # {} /\ Cardinality(S) <= MaxNotes}}

LeadsInit ==
    /\ run \in {RunStart(m, vault, art) :
                   m \in RunModes, vault \in LeadsVaults,
                   art \in {a \in RunArts : a.ontology = "current"}}
    /\ yaml = Idle /\ inh = Idle /\ mt = Idle /\ af = Idle

SpecLeads == LeadsInit /\ [][RunNext]_vars

\* the positions of the projects whose leads name [[Alice]]
LeadSources(notes) ==
    {i \in 1..Len(notes) :
        /\ notes[i].schema # <<>>
        /\ notes[i].schema[1].id = kProject
        /\ LinkAlice.s \in SeqSet(extractLinkTargets(Get(notes[i].frontmatter, kLeads)))}

\* the title keys that the entries of a list of links name
LinkedTitles(value) ==
    IF IsArr(value)
    THEN {LinkKey(link) : link \in SeqSet(NormalizedLinks(value.a))}
    ELSE {}

ListedDocuments ==
    {run.report[i].relativePath : i \in 1..Len(run.report)}
    \cup {run.report[i].file : i \in 1..Len(run.report)}

\* C25: a write run that follows a write run on the vault as that run left it
\* renames no document and writes no document.
RunConvergence ==
    (run.again /\ run.write)
    => \A k \in 1..Len(run.ops) :
          /\ run.ops[k].op # "rename"
          /\ (run.ops[k].op = "write" /\ run.ops[k].path # OntologyPath)
             => run.ops[k].path \notin ListedDocuments

---------------------------------------------------------------------------
(* applySchemaAutofix on a document whose list field holds a value of any   *)
(* kind, then the check of the outcome.                                     *)

\* schema thing with the list field labels: required or not, with or without
\* the default ["x"]
ListSchema(required, withDefault) ==
    Schema(kThing, <<"T", "h", "i", "n", "g", "s">>, JsUndef,
           IF required THEN <<kLabels, kType>> ELSE <<kType>>,
           (kType :> PlainProp("string"))
           @@ (kTitle :> PlainProp("string"))
           @@ (kLabels :> IF withDefault
                          THEN WithDefault(PlainProp("array"), Arr(<<Str(<<"x">>)>>))
                          ELSE PlainProp("array")),
           NoMap)

\* the values of labels in the document; <<>> stands for the field being absent
ListChoices ==
    {<<>>, <<JsNull>>, <<Str(<<>>)>>, <<Str(<<"a">>)>>, <<Num(<<"1">>)>>, <<JsTrue>>,
     <<Arr(<<>>)>>, <<Arr(<<Str(<<"a">>)>>)>>, <<Arr(<<Str(<<"a">>), Str(<<"b">>)>>)>>,
     <<Arr(<<JsNull>>)>>}

ListInit ==
    /\ af \in {[stage |-> "input", schema |-> ListSchema(required, withDefault),
                original |-> BlankBlock(title, labels),
                working |-> BlankBlock(title, labels),
                fixes |-> <<>>, violations |-> <<>>] :
                  required \in BOOLEAN, withDefault \in BOOLEAN,
                  title \in {<<>>, <<Str(<<"a">>)>>}, labels \in ListChoices}
    /\ yaml = Idle /\ inh = Idle /\ mt = Idle /\ run = Idle

\* applySchemaAutofix(working, schema, fixes)
ListFix ==
    /\ af.stage = "input"
    /\ \E fixed \in {applySchemaAutofix(af.schema, [w |-> af.working, fixes |-> <<>>])} :
          af' = [af EXCEPT !.stage = "fixed", !.working = fixed.w, !.fixes = fixed.fixes]
    /\ UNCHANGED <<yaml, inh, mt, run>>

\* validateAgainstSchema(working, schema) on the outcome
ListCheck ==
    /\ af.stage = "fixed"
    /\ af' = [af EXCEPT !.stage = "checked",
                        !.violations = validateAgainstSchema(af.schema, af.working)]
    /\ UNCHANGED <<yaml, inh, mt, run>>

ListNext == ListFix \/ ListCheck

SpecList == ListInit /\ [][ListNext]_vars

\* the elements that a value of the document gives to a list: its elements
\* when it is a list, itself as text when it is a text, a number or a boolean
OwnElements(value) ==
    IF IsArr(value) THEN SeqSet(value.a)
    ELSE IF IsNullish(value) THEN {}
    ELSE {Str(JsString(value))}

\* C26: after applySchemaAutofix every element of the list field labels was an
\* element of the document's value or of the schema default; a value of null
\* is null or the empty list afterwards, and the check then reports the
\* required field as missing.
NoFabricatedValues ==
    af.stage \in {"fixed", "checked"}
    => LET before == Get(af.original, kLabels)
           after  == Get(af.working, kLabels)
           prop   == af.schema.properties[kLabels]
       IN /\ IsArr(after)
             => SeqSet(after.a) \subseteq
                   (OwnElements(before)
                    \cup (IF prop.hasDefault THEN SeqSet(prop.default.a) ELSE {}))
          /\ before = JsNull => after \in {JsNull, Arr(<<>>)}
          /\ (before = JsNull /\ af.stage = "checked" /\ kLabels \in SeqSet(af.schema.required))
             => Violation("required", kLabels) \in SeqSet(af.violations)

---------------------------------------------------------------------------
(* validateAgainstSchema on a document whose list field is declared as an   *)
(* array enum.                                                              *)

EnumEntries == {Str(<<"x">>), Str(<<"y">>), Str(<<"z">>)}

\* schema thing whose field labels is declared with the list rawValue
EnumSchema(rawValue, required) ==
    Schema(kThing, <<"T", "h", "i", "n", "g", "s">>, JsUndef,
           IF required THEN <<kLabels, kType>> ELSE <<kType>>,
           (kType :> PlainProp("string"))
           @@ (kLabels :> propertyFromSchemaValue(rawValue, FALSE)),
           NoMap)

\* the lists of up to MaxArrLen entries out of EnumEntries
EnumLists == UNION {[1..n -> EnumEntries] : n \in 0..MaxArrLen}

EnumInit ==
    /\ af \in {[stage |-> "input", schema |-> EnumSchema(Arr(declared), required),
                working |-> BlankBlock(title, <<Arr(labels)>>),
                violations |-> <<>>] :
                  declared \in {<<Str(<<"x">>), Str(<<"y">>)>>, <<Str(<<"y">>), Str(<<"x">>)>>,
                                <<Str(<<"x">>), Str(<<"y">>), Str(<<"z">>)>>},
                  required \in BOOLEAN,
                  title \in {<<>>, <<Str(<<"a">>)>>}, labels \in EnumLists}
    /\ yaml = Idle /\ inh = Idle /\ mt = Idle /\ run = Idle

\* validateAgainstSchema({ schema, working, violations })
EnumCheck ==
    /\ af.stage = "input"
    /\ af' = [af EXCEPT !.stage = "checked",
                        !.violations = validateAgainstSchema(af.schema, af.working)]
    /\ UNCHANGED <<yaml, inh, mt, run>>

SpecEnum == EnumInit /\ [][EnumCheck]_vars

\* C27: a document whose list for a field declared as an array enum holds
\* declared entries only gets no 'enum' violation for that field.
ArrayEnumValidation ==
    (/\ af.stage = "checked"
     /\ af.schema.properties[kLabels].type = "array"
     /\ af.schema.properties[kLabels].hasEnum
     /\ Len(af.schema.properties[kLabels].enum) >= 2
     /\ SeqSet(af.working[kLabels].a) \subseteq SeqSet(af.schema.properties[kLabels].enum))
    => Violation("enum", kLabels) \notin SeqSet(af.violations)

---------------------------------------------------------------------------
(* Fix runs that write, on a note whose text after the property block is    *)
(* any text of up to MaxBodyLines lines.                                    *)

MaxBodyLines == 3

\* the lines after the closing delimiter line; no line when the file ends
\* with that line
BodyChoices == SeqsUpTo({<<>>, <<"b">>, <<"-", "-", "-">>}, MaxBodyLines)

\* the lines between the delimiter lines
BlockChoices ==
    {<<>>,
     <<<<"t", "y", "p", "e", ":", " ", "t", "h", "i", "n", "g">>>>,
     <<<<"t", "y", "p", "e", ":", " ", "t", "h", "i", "n", "g">>, <<"n", "e", "e", "d", "s", "_", "r", "e", "v", "i", "e", "w", ":", " ", "a">>>>,
     <<<<"t", "y", "p", "e", ":", " ", "T", "h", "i", "n", "g">>, <<"t", "i", "t", "l", "e", ":", " ", "a">>>>,
     <<<<"t", "y", "p", "e", ":", " ", "e", "n", "t", "i", "t", "y">>, <<"s", "u", "b", "t", "y", "p", "e", ":", " ", "e", "n", "t", "i", "t", "y", "-", "p", "e", "r", "s", "o", "n">>>>}

\* the text of the one note of the vault
OnlyNote(vault) == vault[CHOOSE p \in DOMAIN vault : TRUE]

BodyInit ==
    /\ \E block \in BlockChoices, body \in BodyChoices :
          \E vault \in {(PathThing :> (<<Dash3>> \o block \o <<Dash3>> \o body))} :
              af = [stage |-> "vault", vault |-> vault,
                    body |-> parseMarkdownWithFrontmatter(OnlyNote(vault)).body,
                    runs |-> 0, writes |-> 0]
    /\ yaml = Idle /\ inh = Idle /\ mt = Idle /\ run = Idle

\* a fix run that writes: processFile on the note
BodyRun ==
    /\ af.stage = "vault"
    /\ af.runs < MaxRuns
    /\ \E file \in DOMAIN af.vault :
          \E out \in {processFile(file, af.vault, <<ThingSchema>>, "fix", TRUE)} :
              af' = [af EXCEPT !.vault = out.vault, !.runs = @ + 1,
                               !.writes = @ + Cardinality({k \in 1..Len(out.ops) :
                                                              out.ops[k].op = "write"})]
    /\ UNCHANGED <<yaml, inh, mt, run>>

SpecBody == BodyInit /\ [][BodyRun]_vars

\* C28: once fix runs have written the note, one or more times, the text after
\* its closing delimiter line is the text that was there at the start.
BodyPreservation ==
    af.writes >= 1 => parseMarkdownWithFrontmatter(OnlyNote(af.vault)).body = af.body

---------------------------------------------------------------------------
(* The fix-on-save plugin: modify events, the debounce timer and the CLI    *)
(* process that runFix starts.  The variable run holds the fields of the    *)
(* plugin, the number of CLI processes that have not ended, and the number  *)
(* of events so far.                                                        *)

MaxEvents == 4

MaxChildren == 3

PathImage == <<"T", "h", "i", "n", "g", "s", "/", "a", ".", "p", "n", "g">>

ReasonStartup == <<"s", "t", "a", "r", "t", "u", "p">>

ReasonQueued == <<"q", "u", "e", "u", "e", "d">>

\* the files whose modification Obsidian reports
SaveFiles == {PathThing, PathProjectX, PathTemplate, PathImage}

SaveExcludedFolders == <<<<"A", "t", "t", "a", "c", "h", "m", "e", "n", "t", "s">>, <<"S", "c", "h", "e", "m", "a", "s">>, <<"T", "e", "m", "p", "l", "a", "t", "e", "s">>>>

\* isExcludedPath(filePath), for folders that are clean already
isExcludedPath(filePath, excludedFolders) ==
    \E i \in 1..Len(excludedFolders) :
        /\ excludedFolders[i] # <<>>
        /\ \/ filePath = excludedFolders[i]
           \/ StartsWith(filePath, excludedFolders[i] \o <<"/">>)

SaveInit ==
    /\ run \in {[stage |-> "plugin", enabled |-> enabled, basePath |-> basePath,
                 runTimer |-> FALSE, running |-> FALSE, rerunRequested |-> FALSE,
                 lastReason |-> ReasonStartup, children |-> 0, events |-> 0] :
                   enabled \in BOOLEAN, basePath \in BOOLEAN}
    /\ yaml = Idle /\ inh = Idle /\ mt = Idle /\ af = Idle

\* scheduleRun(reasonPath): the timer that was set is cleared and a new one set
SaveScheduleRun(p, reasonPath) ==
    [p EXCEPT !.lastReason = reasonPath, !.runTimer = TRUE]

\* the handler of the event 'modify'
SaveModify ==
    /\ run.stage = "plugin"
    /\ run.events < MaxEvents
    /\ \E file \in SaveFiles :
          run' = IF \/ ~run.enabled
                    \/ ~EndsWith(file, <<".", "m", "d">>)
                    \/ isExcludedPath(file, SaveExcludedFolders)
                 THEN [run EXCEPT !.events = @ + 1]
                 ELSE [SaveScheduleRun(run, file) EXCEPT !.events = @ + 1]
    /\ UNCHANGED <<yaml, inh, mt, af>>

\* the toggle of the settings tab
SaveToggle ==
    /\ run.stage = "plugin"
    /\ run' = [run EXCEPT !.enabled = ~@]
    /\ UNCHANGED <<yaml, inh, mt, af>>

\* `if (this.running)` taken as false
RunFixBusyNever(p) == FALSE

\* `if (this.running)` at the start of runFix
RunFixBusy(p) == p.running

\* runFix()
runFix(p) ==
    IF RunFixBusy(p) THEN [p EXCEPT !.rerunRequested = TRUE]
    ELSE IF ~p.basePath THEN p
    ELSE [p EXCEPT !.running = TRUE, !.children = @ + 1]

\* the callback of window.setTimeout
SaveTimerFires ==
    /\ run.stage = "plugin"
    /\ run.runTimer
    /\ run.children < MaxChildren
    /\ run' = runFix([run EXCEPT !.runTimer = FALSE])
    /\ UNCHANGED <<yaml, inh, mt, af>>

\* the callback of execFile: a CLI process has ended, or was killed after the
\* timeout
SaveChildExits ==
    /\ run.stage = "plugin"
    /\ run.children > 0
    /\ run' = IF run.rerunRequested
              THEN SaveScheduleRun([run EXCEPT !.children = @ - 1, !.running = FALSE,
                                               !.rerunRequested = FALSE],
                                   ReasonQueued)
              ELSE [run EXCEPT !.children = @ - 1, !.running = FALSE]
    /\ UNCHANGED <<yaml, inh, mt, af>>

SaveNext == SaveModify \/ SaveToggle \/ SaveTimerFires \/ SaveChildExits

SpecSave == SaveInit /\ [][SaveNext]_vars

\* C29: at most one CLI process started by runFix has not ended, and it is
\* there exactly while `running` is set; a timer that fires while `running` is
\* set sets rerunRequested, starts no process and changes nothing else.
FixMutualExclusion ==
    /\ [](run.children <= 1 /\ (run.running <=> run.children = 1))
    /\ [][(run.runTimer /\ ~run'.runTimer /\ run.running)
          => run' = [run EXCEPT !.runTimer = FALSE, !.rerunRequested = TRUE]]_vars

\* a timer has fired while the process was in progress: the run is requested
\* again, and there is still one process
FixMutualExclusionWitness ==
    /\ run.stage = "plugin"
    /\ run.running
    /\ run.children = 1
    /\ run.rerunRequested
    /\ ~run.runTimer
    /\ run.lastReason = PathProjectX

---------------------------------------------------------------------------
(* The mobile plugin: modify events, the command 'run now', the debounce    *)
(* timer and the steps of runOnce between its awaits.  The variable run     *)
(* holds the fields of the plugin, the files that the run in progress has   *)
(* still to visit, and, for each note, whether a modify event is still to   *)
(* be answered.                                                             *)

\* the notes of the vault that are in no excluded folder
MobileNotes == <<PathThing, PathProjectX>>

\* the files whose modification Obsidian reports
MobileFiles == {PathThing, PathProjectX, PathTemplate, PathImage}

MobileExcludedFolders == <<<<"A", "t", "t", "a", "c", "h", "m", "e", "n", "t", "s">>, <<"S", "c", "h", "e", "m", "a", "s">>, <<"T", "e", "m", "p", "l", "a", "t", "e", "s">>>>

\* isExcludedPath(filePath) of the mobile plugin
isExcludedPathMobile(filePath, excludedFolders) ==
    \/ EndsWith(filePath, <<".", "b", "a", "s", "e">>)
    \/ StartsWith(filePath, <<".", "o", "b", "s", "i", "d", "i", "a", "n", "/">>)
    \/ isExcludedPath(filePath, excludedFolders)

\* isSchemaFile(filePath), for the schemas folder 'Schemas'
isSchemaFile(filePath) ==
    filePath = <<"S", "c", "h", "e", "m", "a", "s">> \/ StartsWith(filePath, <<"S", "c", "h", "e", "m", "a", "s", "/">>)

\* pendingPaths.add(filePath): a Set keeps the order of insertion
PendingAdd(paths, filePath) ==
    IF filePath \in SeqSet(paths) THEN paths ELSE Append(paths, filePath)

MobileInit ==
    /\ run \in {[stage |-> "mobile", enabled |-> TRUE, runOnModify |-> runOnModify,
                 runTimer |-> FALSE, running |-> FALSE, pendingRun |-> FALSE,
                 pendingPaths |-> <<>>, phase |-> "idle", files |-> <<>>,
                 owed |-> {}, owedByLaterRun |-> {}, late |-> {}, events |-> 0] :
                   runOnModify \in BOOLEAN}
    /\ yaml = Idle /\ inh = Idle /\ mt = Idle /\ af = Idle

\* scheduleRun(filePath); <<>> stands for null
MobileScheduleRun(p, filePath) ==
    [p EXCEPT !.pendingPaths = IF filePath = <<>> THEN @ ELSE PendingAdd(@, filePath),
              !.runTimer = TRUE]

\* the handler of the event 'modify'; selfTouch is isSelfTouch(file.path),
\* which depends on the clock
MobileModify ==
    /\ run.stage = "mobile"
    /\ run.events < MaxEvents
    /\ \E file \in MobileFiles, selfTouch \in BOOLEAN :
          run' = IF \/ ~run.enabled \/ ~run.runOnModify \/ ~EndsWith(file, <<".", "m", "d">>)
                    \/ isExcludedPathMobile(file, MobileExcludedFolders)
                    \/ selfTouch
                    \/ isSchemaFile(file)
                 THEN [run EXCEPT !.events = @ + 1]
                 ELSE [MobileScheduleRun(run, file) EXCEPT
                          !.events = @ + 1,
                          !.owed = @ \cup {file},
                          !.owedByLaterRun = @ \cup {file},
                          !.late = IF run.running THEN @ \cup {file} ELSE @]
    /\ UNCHANGED <<yaml, inh, mt, af>>

\* the command 'Run schema fix now'
MobileCommand ==
    /\ run.stage = "mobile"
    /\ run.events < MaxEvents
    /\ run' = [MobileScheduleRun(run, <<>>) EXCEPT !.events = @ + 1]
    /\ UNCHANGED <<yaml, inh, mt, af>>

\* runOnce finds a run in progress; the request is dropped
runOnceBusyDropped(p) == p

\* runOnce finds a run in progress
runOnceBusy(p) == [p EXCEPT !.pendingRun = TRUE]

\* runOnce(), up to its first await
runOnce(p) ==
    IF p.running THEN runOnceBusy(p)
    ELSE [p EXCEPT !.running = TRUE, !.phase = "refresh", !.late = {}]

\* the callback of window.setTimeout
MobileTimerFires ==
    /\ run.stage = "mobile"
    /\ run.runTimer
    /\ run' = runOnce([run EXCEPT !.runTimer = FALSE])
    /\ UNCHANGED <<yaml, inh, mt, af>>

\* runOnce from the end of refreshSchemas to the first file: the files of
\* pendingPaths, or every note when there is none; pendingPaths is cleared
MobileSnapshot ==
    /\ run.stage = "mobile"
    /\ run.phase = "refresh"
    /\ run' = [run EXCEPT
                  !.files = IF run.pendingPaths # <<>>
                            THEN SelectSeq(run.pendingPaths,
                                           LAMBDA f : /\ EndsWith(f, <<".", "m", "d">>)
                                                      /\ ~isExcludedPathMobile(f, MobileExcludedFolders))
                            ELSE MobileNotes,
                  !.pendingPaths = <<>>,
                  !.phase = "files"]
    /\ UNCHANGED <<yaml, inh, mt, af>>

\* the call of applySchemaToFile for the next file
MobileApply ==
    /\ run.stage = "mobile"
    /\ run.phase = "files"
    /\ run.files # <<>>
    /\ run' = [run EXCEPT
                  !.files = Tail(@),
                  !.owed = @ \ {Head(run.files)},
                  !.owedByLaterRun = IF Head(run.files) \in run.late THEN @
                                     ELSE @ \ {Head(run.files)}]
    /\ UNCHANGED <<yaml, inh, mt, af>>

\* the call of runBacklinkSync after the last file
MobileBacklinkSync ==
    /\ run.stage = "mobile"
    /\ run.phase = "files"
    /\ run.files = <<>>
    /\ run' = [run EXCEPT !.phase = "backlinks"]
    /\ UNCHANGED <<yaml, inh, mt, af>>

\* the finally block of runOnce
MobileFinally ==
    /\ run.stage = "mobile"
    /\ run.phase = "backlinks"
    /\ run' = IF run.pendingRun
              THEN MobileScheduleRun([run EXCEPT !.running = FALSE, !.phase = "idle",
                                                 !.pendingRun = FALSE], <<>>)
              ELSE [run EXCEPT !.running = FALSE, !.phase = "idle"]
    /\ UNCHANGED <<yaml, inh, mt, af>>

MobileNext ==
    \/ MobileModify
    \/ MobileCommand
    \/ MobileTimerFires
    \/ MobileSnapshot
    \/ MobileApply
    \/ MobileBacklinkSync
    \/ MobileFinally

\* timers fire and runs complete
FairSpecMobile ==
    /\ MobileInit
    /\ [][MobileNext]_vars
    /\ WF_vars(MobileTimerFires)
    /\ WF_vars(MobileSnapshot)
    /\ WF_vars(MobileApply)
    /\ WF_vars(MobileBacklinkSync)
    /\ WF_vars(MobileFinally)

\* C30: as stated: a path that a modify event has added to pendingPaths is
\* eventually passed to applySchemaToFile by a run that started after the
\* event; and a run requested while another is in progress is scheduled when
\* that run finishes.
NoLostTriggerByLaterRun ==
    /\ \A i \in 1..Len(MobileNotes) :
          (MobileNotes[i] \in run.owedByLaterRun) ~> (MobileNotes[i] \notin run.owedByLaterRun)
    /\ run.pendingRun ~> (~run.pendingRun /\ run.runTimer)

\* C30, amended: a path that a modify event has added to pendingPaths is
\* eventually passed to applySchemaToFile after the event, by the run in
\* progress or by a later one; and a run requested while another is in
\* progress is scheduled when that run finishes.
NoLostTrigger ==
    /\ \A i \in 1..Len(MobileNotes) :
          (MobileNotes[i] \in run.owed) ~> (MobileNotes[i] \notin run.owed)
    /\ run.pendingRun ~> (~run.pendingRun /\ run.runTimer)

\* a note modified while a run awaited refreshSchemas has been passed to
\* applySchemaToFile by that run, which has not finished
NoLostTriggerWitness ==
    /\ run.stage = "mobile"
    /\ run.running
    /\ PathThing \in run.late
    /\ PathThing \notin run.owed
    /\ PathThing \in run.owedByLaterRun

====
